---- MODULE Spec2Model ----
(***************************************************************************)
(* Verification model of the basesql request-execution pipeline:          *)
(* the circuit breaker, the token-bucket rate limiter, the access-token   *)
(* manager and the retrying HTTP executor of the Feishu client, and the    *)
(* record operations built on it: the paginator, the ORM query and the    *)
(* raw UPDATE / DELETE statements; further the translation of LIKE         *)
(* predicates, the migrator, the field value conversions and the disposal  *)
(* of a client's resources.                                                *)
(*                                                                         *)
(* Time is a discrete clock `now` counted in ticks.  Each component is a   *)
(* record plus pure operators that are transcriptions of the Go methods;   *)
(* the specifications below drive those operators from concurrent callers. *)
(***************************************************************************)
EXTENDS Integers, Sequences, FiniteSets, TLC

VARIABLES
    now,        \* the wall clock, in ticks (time.Now())
    \* ---- circuit breaker (CircuitBreaker struct) ----
    cbcfg,      \* CircuitBreaker.config
    cb,         \* CircuitBreaker fields: state, failures, requests, lastFailTime
    cbpc,       \* per caller: position inside CircuitBreaker.Execute
    cbprobe,    \* per caller: admitted in the current HALF_OPEN period, outcome not yet recorded
    cblast,     \* the step of the breaker that was taken last
    streak,     \* failures recorded in CLOSED since the last recorded success or Reset
    tripPending,\* the streak reached MaxFailures and no request has arrived since
    hoSucc,     \* successes recorded in HALF_OPEN since the last OPEN -> HALF_OPEN
    hoFailAt,   \* time of the last failure recorded in HALF_OPEN (ZeroTime: none)
    hoAdmitted, \* requests admitted since the last OPEN -> HALF_OPEN (0 outside HALF_OPEN)
    \* ---- token bucket (TokenBucket struct) ----
    tb,         \* TokenBucket fields: tokens, lastRefill, config, stats
    tbw,        \* the caller of WaitN: position, n, wake-up time, result, tokens it was charged
    tblast,     \* the operation of the bucket that was called last
    tbsnap,     \* what the last GetStats returned
    \* ---- access token (Client.accessToken, Client.tokenExpiry) ----
    authType,   \* Config.AuthType with an access token supplied: "user", else "tenant"
    tok,        \* accessToken (0: "", n: the n-th token issued) and tokenExpiry
    tokpc,      \* per caller: position inside getAccessToken
    tokseen,    \* per caller: the token and expiry it copied under the read lock
    tokres,     \* per caller: what its last getAccessToken returned
    \* ---- client (Client.DoRequest and the connection pool it sends through) ----
    pool,       \* ConnectionPool statistics: TotalRequests, FailedRequests
    req,        \* the caller of DoRequest: position, attempt, lastErr, result, what it sent
    \* ---- record operations (Executor.getRecordsWithLimit, callbacks.go) ----
    srv,        \* the remote table: its records in emission order, the shape of list bodies
    pag,        \* the caller of getRecordsWithLimit: pageToken, allRecords, what was served
    qry,        \* the caller of queryCallback: rows set on the destination, RowsAffected
    raw,        \* the caller of executeRawUpdate / executeRawDelete without WHERE
    \* ---- SQL translation (SQLConverter, buildFilterFromWhere) ----
    flt,        \* a LIKE predicate, the path it arrives on and the conditions built from it
    \* ---- migration (Migrator.RunAutoMigrate) ----
    remote,     \* the remote base: whether the mapped table exists, its fields, the body shape
    mig,        \* the caller of RunAutoMigrate: position, existingFields, the requests it sent
    \* ---- field values (Field.ConvertFromGoValue, Field.ConvertToGoValue) ----
    conv,       \* a host value of a field, the wire value made of it, and what is read back
    \* ---- resources (Client.Close, ResourceManager) ----
    cls         \* the clients, the global registry and the calls of each close function

cbVars == <<cbcfg, cb, cbpc, cbprobe, cblast, streak, tripPending, hoSucc, hoFailAt,
            hoAdmitted>>
tbVars == <<tb, tbw, tblast, tbsnap>>
tokVars == <<authType, tok, tokpc, tokseen, tokres>>
clVars == <<pool, req>>
recVars == <<srv, pag, qry, raw>>
extVars == <<flt, remote, mig, conv, cls>>
vars == <<now, cbVars, tbVars, tokVars, clVars, recVars, extVars>>

\* what a step of one component leaves alone
CBFrame == UNCHANGED <<tbVars, tokVars, clVars, recVars, extVars>>
TBFrame == UNCHANGED <<cbVars, tokVars, clVars, recVars, extVars>>
TokFrame == UNCHANGED <<cbVars, tbVars, clVars, recVars, extVars>>
RecFrame == UNCHANGED <<now, cbVars, tbVars, tokVars, clVars, extVars>>
\* a step of DoRequest leaves the other callers and the bookkeeping of the
\* component specifications alone
ClientFrame == UNCHANGED <<cbcfg, cbpc, cbprobe, cblast, streak, tripPending, hoSucc, hoFailAt,
                           hoAdmitted,
                           tbw, tblast, tbsnap, authType, tokpc, tokseen, tokres, recVars, extVars>>

----------------------------------------------------------------------------
(* Bounds of the model *)

\* LIKE patterns have at most MaxPatLen characters
MaxPatLen == 3
\* RunAutoMigrate is called at most MaxMigrations times
MaxMigrations == 2
\* host times are drawn from 0..MaxConvTicks
MaxConvTicks == 3
\* host lists have at most MaxListLen entries
MaxListLen == 2
\* NewClient is called for at most MaxClients clients
MaxClients == 2
\* Close is called at most MaxCloseCalls times on a client
MaxCloseCalls == 3
\* the loop of getRecordsWithLimit is followed for at most MaxPagRequests rounds
MaxPagRequests == 4
\* a client sends at most MaxSent HTTP requests
MaxSent == 3
\* number of concurrent callers of a component
NumProcs == 2
\* the clock stops at MaxTime ticks
MaxTime == 7
\* CircuitBreakerConfig.MaxFailures is drawn from 1..MaxFailuresCap
MaxFailuresCap == 2
\* CircuitBreakerConfig.MaxRequests is drawn from 1..MaxRequestsCap
MaxRequestsCap == 2
\* CircuitBreakerConfig.Timeout, in ticks
TimeoutTicks == 2

\* ticks per second: the clock's resolution; tokens are counted in units of
\* 1/TicksPerSecond token, so that rate * elapsed is exact
TicksPerSecond == 2
\* the token-bucket clock stops at TBMaxTime ticks
TBMaxTime == 2
\* RateLimiterConfig.Rate (tokens per second) is drawn from 1..MaxRate
MaxRate == 1
\* RateLimiterConfig.Burst is drawn from 1..MaxBurst
MaxBurst == 2
\* AllowN / WaitN are called with n in 0..MaxN
MaxN == 2
\* the statistics counters stop counting requests at MaxStatCalls
MaxStatCalls == 2

\* the token clock stops at TokMaxTime ticks (one tick is five minutes here)
TokMaxTime == 3
\* the token endpoint answers with expire in 1..MaxExpire ticks
MaxExpire == 2
\* at most MaxIssued tokens are issued by the token endpoint
MaxIssued == 3
\* getAccessToken refreshes when now + 5 minutes is after the expiry
RefreshWindow == 1
\* refreshToken gives a user token 24 hours: 288 ticks of five minutes
UserTokenLife == 288

\* the client clock stops at ClientMaxTime ticks
ClientMaxTime == 5
\* RetryConfig.MaxRetries of the client
RetryMax == 2
\* RetryConfig.MaxDelay, in ticks (InitialDelay is one tick)
RetryMaxDelay == 3
\* DoRequest is called at most MaxDoRequests times
MaxDoRequests == 3

\* the remote table holds 0..MaxRecords records
MaxRecords == 3
\* the page_size getRecordsWithLimit asks for (500 in the source, scaled)
PageSize == 2
\* the page size the service applies to a list request that names none
DefaultPageSize == 2
\* at most MaxOps record operations are started
MaxOps == 2

Procs == 1..NumProcs

\* time.Time{} : the zero time, before every instant of the clock
ZeroTime == -1

\* now.Sub(t): the zero time lies further back than any timeout
Sub(t1, t0) == IF t0 = ZeroTime THEN t1 + MaxTime + TimeoutTicks + 2 ELSE t1 - t0

----------------------------------------------------------------------------
(* Token bucket: src/unnamed/part_005, lines 821-1120 *)

TBConfigs == [rate : 1..MaxRate, burst : 1..MaxBurst]

\* float64(n) tokens, in units
Tok(n) == n * TicksPerSecond

NoStats == [total |-> 0, allowed |-> 0, rejected |-> 0, lastRequestTime |-> ZeroTime]

\* NewTokenBucket: a full bucket, refilled now, empty statistics
NewTokenBucket(config, t) ==
    [tokens |-> Tok(config.burst), lastRefill |-> t, config |-> config, stats |-> NoStats]

\* refill without the clamp to the bucket capacity
refill_NoClamp(b, t) ==
    LET elapsed == t - b.lastRefill
    IN  IF elapsed <= 0 THEN b
        ELSE [b EXCEPT !.tokens = b.tokens + b.config.rate * elapsed, !.lastRefill = t]

\* refill(now): add rate * elapsed, clamp to burst, move lastRefill
refill(b, t) ==
    LET elapsed == t - b.lastRefill
        added   == b.tokens + b.config.rate * elapsed
    IN  IF elapsed <= 0 THEN b
        ELSE [b EXCEPT !.tokens = IF added > Tok(b.config.burst) THEN Tok(b.config.burst) ELSE added,
                       !.lastRefill = t]

\* updateStats(isRequest)
updateStats(b, isRequest, t) ==
    IF isRequest
    THEN [b EXCEPT !.stats.total = b.stats.total + 1, !.stats.lastRequestTime = t]
    ELSE [b EXCEPT !.stats.allowed = b.stats.allowed + 1]

\* updateRejectedStats
updateRejectedStats(b) == [b EXCEPT !.stats.rejected = b.stats.rejected + 1]

\* AllowN(n) for n > 0, under tb.mutex: count the request, refill, take n tokens if there
AllowN(b, n, t) ==
    IF n <= 0 THEN [tb |-> b, ok |-> TRUE]
    ELSE LET b1 == refill(updateStats(b, TRUE, t), t)
         IN  IF b1.tokens >= Tok(n)
             THEN [tb |-> updateStats([b1 EXCEPT !.tokens = b1.tokens - Tok(n)], FALSE, t),
                   ok |-> TRUE]
             ELSE [tb |-> updateRejectedStats(b1), ok |-> FALSE]

\* Allow(): the same steps for one token
Allow(b, t) ==
    LET b1 == refill(updateStats(b, TRUE, t), t)
    IN  IF b1.tokens >= Tok(1)
        THEN [tb |-> updateStats([b1 EXCEPT !.tokens = b1.tokens - Tok(1)], FALSE, t),
              ok |-> TRUE]
        ELSE [tb |-> updateRejectedStats(b1), ok |-> FALSE]

\* calculateWaitTime(n), in ticks: time.Duration(needed/rate) truncates the
\* quotient to whole nanosecond counts BEFORE it is multiplied by time.Second,
\* so the result is a whole number of seconds (needed is in units)
calculateWaitTime(b, n) ==
    LET needed == Tok(n) - b.tokens
    IN  IF needed <= 0 THEN 0
        ELSE (needed \div (TicksPerSecond * b.config.rate)) * TicksPerSecond

\* GetTokens: refill, then read
GetTokens(b, t) == refill(b, t)

\* TokenBucket.Reset: a full bucket, refilled now, statistics cleared
TBReset(b, t) == [b EXCEPT !.tokens = Tok(b.config.burst), !.lastRefill = t, !.stats = NoStats]

\* UpdateConfig without the clamp of the current tokens to the new burst
UpdateConfig_NoClamp(b, config) == [b EXCEPT !.config = config]

\* UpdateConfig: swap the configuration, clamp the tokens to the new burst
UpdateConfig(b, config) ==
    [b EXCEPT !.config = config,
              !.tokens = IF b.tokens > Tok(config.burst) THEN Tok(config.burst) ELSE b.tokens]

IdleWaiter == [pc |-> "idle", n |-> 0, wake |-> 0, res |-> "none", got |-> 0]

\* the bucket of a client: DefaultRateLimiterConfig scaled to the model's bounds
TBIdle ==
    /\ tb = NewTokenBucket([rate |-> MaxRate, burst |-> MaxBurst], 0)
    /\ tbw = IdleWaiter
    /\ tblast = "init"
    /\ tbsnap = NoStats

TBInit ==
    /\ \E config \in TBConfigs : tb = NewTokenBucket(config, 0)
    /\ tbw = IdleWaiter
    /\ tblast = "init"
    /\ tbsnap = NoStats

CanCount == tb.stats.total < MaxStatCalls

\* some caller calls Allow()
TBAllow ==
    /\ CanCount
    /\ tb' = Allow(tb, now).tb
    /\ tblast' = "Allow"
    /\ UNCHANGED <<now, tbw, tbsnap>>
    /\ TBFrame

\* some caller calls AllowN(n)
TBAllowN(n) ==
    /\ CanCount
    /\ tb' = AllowN(tb, n, now).tb
    /\ tblast' = "AllowN"
    /\ UNCHANGED <<now, tbw, tbsnap>>
    /\ TBFrame

\* GetStats, under tb.stats.mutex: a copy of the statistics
GetStats(b) == b.stats

\* some caller calls GetStats() while no call holds tb.mutex
TBGetStats ==
    /\ tbsnap' = GetStats(tb)
    /\ tblast' = "GetStats"
    /\ UNCHANGED <<now, tb, tbw>>
    /\ TBFrame

\* some caller calls AllowN(n), and another goroutine calls GetStats() while the
\* first holds tb.mutex between updateStats(true) and its second update:
\* GetStats takes tb.stats.mutex only, which AllowN releases in between
TBAllowNObserved(n) ==
    /\ CanCount
    /\ tbsnap' = GetStats(updateStats(tb, TRUE, now))
    /\ tb' = AllowN(tb, n, now).tb
    /\ tblast' = "AllowN"
    /\ UNCHANGED <<now, tbw>>
    /\ TBFrame

\* some caller calls GetTokens()
TBGetTokens ==
    /\ tb' = GetTokens(tb, now)
    /\ tblast' = "GetTokens"
    /\ UNCHANGED <<now, tbw, tbsnap>>
    /\ TBFrame

\* some caller calls Reset()
TBDoReset ==
    /\ tb' = TBReset(tb, now)
    /\ tblast' = "Reset"
    /\ UNCHANGED <<now, tbw, tbsnap>>
    /\ TBFrame

\* some caller calls UpdateConfig(config)
TBUpdateConfig(config) ==
    /\ tb' = UpdateConfig(tb, config)
    /\ tblast' = "UpdateConfig"
    /\ UNCHANGED <<now, tbw, tbsnap>>
    /\ TBFrame

\* WaitN(ctx, n): n <= 0 returns nil; otherwise the first AllowN(n)
TBWaitBegin(n) ==
    /\ tbw.pc = "idle"
    /\ n <= 0 \/ CanCount
    /\ LET r == AllowN(tb, n, now)
       IN  /\ tb' = r.tb
           /\ tbw' = IF r.ok
                     THEN [pc |-> "idle", n |-> n, wake |-> 0, res |-> "nil",
                           got |-> IF n <= 0 THEN 0 ELSE n]
                     ELSE [pc |-> "calc", n |-> n, wake |-> 0, res |-> "none", got |-> 0]
    /\ tblast' = "WaitN"
    /\ UNCHANGED <<now, tbsnap>>
    /\ TBFrame

\* WaitN: calculateWaitTime(n); a wait time <= 0 returns nil at once
TBWaitCalc ==
    /\ tbw.pc = "calc"
    /\ LET w == calculateWaitTime(tb, tbw.n)
       IN  tbw' = IF w <= 0
                  THEN [tbw EXCEPT !.pc = "idle", !.res = "nil"]
                  ELSE [tbw EXCEPT !.pc = "sleep", !.wake = now + w]
    /\ tblast' = "WaitN"
    /\ UNCHANGED <<now, tb, tbsnap>>
    /\ TBFrame

\* WaitN: the timer fired; AllowN(n) once more, nil or the time-out error
TBWaitWake ==
    /\ tbw.pc = "sleep"
    /\ now >= tbw.wake
    /\ CanCount
    /\ LET r == AllowN(tb, tbw.n, now)
       IN  /\ tb' = r.tb
           /\ tbw' = IF r.ok
                     THEN [tbw EXCEPT !.pc = "idle", !.res = "nil", !.got = tbw.n]
                     ELSE [tbw EXCEPT !.pc = "idle", !.res = "timeout"]
    /\ tblast' = "WaitN"
    /\ UNCHANGED <<now, tbsnap>>
    /\ TBFrame

\* WaitN: ctx.Done() while sleeping returns ctx.Err()
TBWaitCancel ==
    /\ tbw.pc = "sleep"
    /\ tbw' = [tbw EXCEPT !.pc = "idle", !.res = "cancelled"]
    /\ tblast' = "WaitN"
    /\ UNCHANGED <<now, tb, tbsnap>>
    /\ TBFrame

TBTick ==
    /\ now < TBMaxTime
    /\ now' = now + 1
    /\ tblast' = "tick"
    /\ UNCHANGED <<tb, tbw, tbsnap>>
    /\ TBFrame

TBNext ==
    \/ TBAllow
    \/ \E n \in 0..MaxN : TBAllowN(n)
    \/ TBGetTokens
    \/ TBDoReset
    \/ \E config \in TBConfigs : TBUpdateConfig(config)
    \/ \E n \in 0..MaxN : TBWaitBegin(n)
    \/ TBWaitCalc
    \/ TBWaitWake
    \/ TBWaitCancel
    \/ TBTick

----------------------------------------------------------------------------
(* Access token: src/unnamed/part_011, refreshToken and getAccessToken *)

\* the user-supplied token of Config.AccessToken
UserToken == -2

\* time.Now().Add(5 * time.Minute).After(expiry)
NeedsRefresh(t, expiry) == expiry = ZeroTime \/ t + RefreshWindow > expiry

\* refreshToken, user branch: under the write lock, the configured token for 24 hours
refreshUser(t) == [accessToken |-> UserToken, tokenExpiry |-> t + UserTokenLife]

\* refreshToken, tenant branch after a code-0 response: under the write lock,
\* the token of the response, expiring after its expire field
refreshTenant(b, t, expire) ==
    [accessToken |-> b.accessToken + 1, tokenExpiry |-> t + expire]

\* the state NewClient leaves after its initial refreshToken
TokInitWith(modes, expires) ==
    /\ authType \in modes
    /\ \E e \in expires :
          tok = IF authType = "user" THEN refreshUser(0)
                ELSE [accessToken |-> 1, tokenExpiry |-> e]
    /\ tokpc = [p \in Procs |-> "idle"]
    /\ tokseen = [p \in Procs |-> [accessToken |-> 0, tokenExpiry |-> ZeroTime]]
    /\ tokres = [p \in Procs |-> "none"]

TokInit == TokInitWith({"tenant", "user"}, 1..MaxExpire)

TokIdle == TokInitWith({"tenant"}, {MaxExpire})

\* getAccessToken: copy token and expiry under the read lock
TokRead(p) ==
    /\ tokpc[p] = "idle"
    /\ tokseen' = [tokseen EXCEPT ![p] = tok]
    /\ tokpc' = [tokpc EXCEPT ![p] = "check"]
    /\ tokres' = [tokres EXCEPT ![p] = "none"]
    /\ UNCHANGED <<now, authType, tok>>
    /\ TokFrame

\* getAccessToken: the expiry test on the copy; a fresh token is returned, a stale one
\* starts refreshToken (user: done at once; tenant: the POST to the token endpoint)
TokCheck(p) ==
    /\ tokpc[p] = "check"
    /\ IF ~NeedsRefresh(now, tokseen[p].tokenExpiry)
       THEN /\ tokpc' = [tokpc EXCEPT ![p] = "idle"]
            /\ tokres' = [tokres EXCEPT ![p] = "token"]
            /\ tok' = tok
       ELSE IF authType = "user"
            THEN /\ tok' = refreshUser(now)
                 /\ tokpc' = [tokpc EXCEPT ![p] = "reread"]
                 /\ tokres' = tokres
            ELSE /\ tok.accessToken < MaxIssued
                 /\ tokpc' = [tokpc EXCEPT ![p] = "refreshing"]
                 /\ UNCHANGED <<tok, tokres>>
    /\ UNCHANGED <<now, authType, tokseen>>
    /\ TokFrame

\* refreshToken: the token endpoint answered with code 0 and an expire
TokRefreshOk(p, expire) ==
    /\ tokpc[p] = "refreshing"
    /\ tok' = refreshTenant(tok, now, expire)
    /\ tokpc' = [tokpc EXCEPT ![p] = "reread"]
    /\ UNCHANGED <<now, authType, tokseen, tokres>>
    /\ TokFrame

\* refreshToken: the POST failed ("network") or answered a non-zero code ("auth")
TokRefreshFail(p, kind) ==
    /\ tokpc[p] = "refreshing"
    /\ tokpc' = [tokpc EXCEPT ![p] = "idle"]
    /\ tokres' = [tokres EXCEPT ![p] = kind]
    /\ UNCHANGED <<now, authType, tok, tokseen>>
    /\ TokFrame

\* getAccessToken: read the token again under the read lock and return it
TokReread(p) ==
    /\ tokpc[p] = "reread"
    /\ tokseen' = [tokseen EXCEPT ![p].accessToken = tok.accessToken]
    /\ tokpc' = [tokpc EXCEPT ![p] = "idle"]
    /\ tokres' = [tokres EXCEPT ![p] = "token"]
    /\ UNCHANGED <<now, authType, tok>>
    /\ TokFrame

TokTick ==
    /\ now < TokMaxTime
    /\ now' = now + 1
    /\ UNCHANGED tokVars
    /\ TokFrame

TokNext ==
    \/ \E p \in Procs : TokRead(p)
    \/ \E p \in Procs : TokCheck(p)
    \/ \E p \in Procs : \E expire \in 1..MaxExpire : TokRefreshOk(p, expire)
    \/ \E p \in Procs : \E kind \in {"network", "auth"} : TokRefreshFail(p, kind)
    \/ \E p \in Procs : TokReread(p)
    \/ TokTick

----------------------------------------------------------------------------
(* Circuit breaker: src/unnamed/part_008 *)

CBConfigs == [MaxFailures : 1..MaxFailuresCap,
              MaxRequests : 1..MaxRequestsCap,
              Timeout     : {TimeoutTicks}]

\* NewCircuitBreaker: state CLOSED, counters zero, lastFailTime the zero time
NewCircuitBreaker ==
    [state |-> "CLOSED", failures |-> 0, requests |-> 0, lastFailTime |-> ZeroTime]

\* setState: only the state field changes (the callback runs detached)
setState(b, s) == [b EXCEPT !.state = s]

\* allowRequest with the OPEN comparison weakened to >= (admits at exactly Timeout)
allowRequest_EarlyProbe(b, c, t) ==
    CASE b.state = "CLOSED" -> [cb |-> b, ok |-> TRUE]
      [] b.state = "OPEN" ->
            IF Sub(t, b.lastFailTime) >= c.Timeout
            THEN [cb |-> [setState(b, "HALF_OPEN") EXCEPT !.requests = 0], ok |-> TRUE]
            ELSE [cb |-> b, ok |-> FALSE]
      [] b.state = "HALF_OPEN" -> [cb |-> b, ok |-> b.requests < c.MaxRequests]
      [] OTHER -> [cb |-> b, ok |-> FALSE]

\* allowRequest under cb.mutex: the breaker afterwards and the answer
allowRequest(b, c, t) ==
    CASE b.state = "CLOSED" -> [cb |-> b, ok |-> TRUE]
      [] b.state = "OPEN" ->
            IF Sub(t, b.lastFailTime) > c.Timeout
            THEN [cb |-> [setState(b, "HALF_OPEN") EXCEPT !.requests = 0], ok |-> TRUE]
            ELSE [cb |-> b, ok |-> FALSE]
      [] b.state = "HALF_OPEN" -> [cb |-> b, ok |-> b.requests < c.MaxRequests]
      [] OTHER -> [cb |-> b, ok |-> FALSE]

\* recordResult tripping only when failures > MaxFailures
recordResult_LateTrip(b, c, err, t) ==
    CASE b.state = "CLOSED" ->
            IF err
            THEN LET b1 == [b EXCEPT !.failures = b.failures + 1, !.lastFailTime = t]
                 IN  IF b1.failures > c.MaxFailures THEN setState(b1, "OPEN") ELSE b1
            ELSE [b EXCEPT !.failures = 0]
      [] b.state = "HALF_OPEN" ->
            LET b1 == [b EXCEPT !.requests = b.requests + 1]
            IN  IF err
                THEN [setState(b1, "OPEN") EXCEPT !.lastFailTime = t]
                ELSE IF b1.requests >= c.MaxRequests
                     THEN [setState(b1, "CLOSED") EXCEPT !.failures = 0, !.requests = 0]
                     ELSE b1
      [] OTHER -> b

\* recordResult closing from HALF_OPEN without clearing the failure counter
recordResult_KeepFailures(b, c, err, t) ==
    CASE b.state = "CLOSED" ->
            IF err
            THEN LET b1 == [b EXCEPT !.failures = b.failures + 1, !.lastFailTime = t]
                 IN  IF b1.failures >= c.MaxFailures THEN setState(b1, "OPEN") ELSE b1
            ELSE [b EXCEPT !.failures = 0]
      [] b.state = "HALF_OPEN" ->
            LET b1 == [b EXCEPT !.requests = b.requests + 1]
            IN  IF err
                THEN [setState(b1, "OPEN") EXCEPT !.lastFailTime = t]
                ELSE IF b1.requests >= c.MaxRequests
                     THEN [setState(b1, "CLOSED") EXCEPT !.requests = 0]
                     ELSE b1
      [] OTHER -> b

\* recordResult closing on the first success recorded in HALF_OPEN
recordResult_CloseOnFirst(b, c, err, t) ==
    CASE b.state = "CLOSED" ->
            IF err
            THEN LET b1 == [b EXCEPT !.failures = b.failures + 1, !.lastFailTime = t]
                 IN  IF b1.failures >= c.MaxFailures THEN setState(b1, "OPEN") ELSE b1
            ELSE [b EXCEPT !.failures = 0]
      [] b.state = "HALF_OPEN" ->
            LET b1 == [b EXCEPT !.requests = b.requests + 1]
            IN  IF err
                THEN [setState(b1, "OPEN") EXCEPT !.lastFailTime = t]
                ELSE [setState(b1, "CLOSED") EXCEPT !.failures = 0, !.requests = 0]
      [] OTHER -> b

\* recordResult reopening from HALF_OPEN without recording the failure time
recordResult_StaleFailTime(b, c, err, t) ==
    CASE b.state = "CLOSED" ->
            IF err
            THEN LET b1 == [b EXCEPT !.failures = b.failures + 1, !.lastFailTime = t]
                 IN  IF b1.failures >= c.MaxFailures THEN setState(b1, "OPEN") ELSE b1
            ELSE [b EXCEPT !.failures = 0]
      [] b.state = "HALF_OPEN" ->
            LET b1 == [b EXCEPT !.requests = b.requests + 1]
            IN  IF err
                THEN setState(b1, "OPEN")
                ELSE IF b1.requests >= c.MaxRequests
                     THEN [setState(b1, "CLOSED") EXCEPT !.failures = 0, !.requests = 0]
                     ELSE b1
      [] OTHER -> b

\* recordResult closing from HALF_OPEN only once the count exceeds MaxRequests
recordResult_CloseAfterMax(b, c, err, t) ==
    CASE b.state = "CLOSED" ->
            IF err
            THEN LET b1 == [b EXCEPT !.failures = b.failures + 1, !.lastFailTime = t]
                 IN  IF b1.failures >= c.MaxFailures THEN setState(b1, "OPEN") ELSE b1
            ELSE [b EXCEPT !.failures = 0]
      [] b.state = "HALF_OPEN" ->
            LET b1 == [b EXCEPT !.requests = b.requests + 1]
            IN  IF err
                THEN [setState(b1, "OPEN") EXCEPT !.lastFailTime = t]
                ELSE IF b1.requests > c.MaxRequests
                     THEN [setState(b1, "CLOSED") EXCEPT !.failures = 0, !.requests = 0]
                     ELSE b1
      [] OTHER -> b

\* recordResult under cb.mutex; err is TRUE when the operation returned an error
recordResult(b, c, err, t) ==
    CASE b.state = "CLOSED" ->
            IF err
            THEN LET b1 == [b EXCEPT !.failures = b.failures + 1, !.lastFailTime = t]
                 IN  IF b1.failures >= c.MaxFailures THEN setState(b1, "OPEN") ELSE b1
            ELSE [b EXCEPT !.failures = 0]
      [] b.state = "HALF_OPEN" ->
            LET b1 == [b EXCEPT !.requests = b.requests + 1]
            IN  IF err
                THEN [setState(b1, "OPEN") EXCEPT !.lastFailTime = t]
                ELSE IF b1.requests >= c.MaxRequests
                     THEN [setState(b1, "CLOSED") EXCEPT !.failures = 0, !.requests = 0]
                     ELSE b1
      [] OTHER -> b

\* CircuitBreaker.Reset
CBReset(b) ==
    [setState(b, "CLOSED") EXCEPT !.failures = 0, !.requests = 0, !.lastFailTime = ZeroTime]

CBInitWith(configs) ==
    /\ cbcfg \in configs
    /\ cb = NewCircuitBreaker
    /\ cbpc = [p \in Procs |-> "idle"]
    /\ cbprobe = [p \in Procs |-> FALSE]
    /\ cblast = [op |-> "init", p |-> 0]
    /\ streak = 0
    /\ tripPending = FALSE
    /\ hoSucc = 0
    /\ hoFailAt = ZeroTime
    /\ hoAdmitted = 0

CBInit == CBInitWith(CBConfigs)

\* the breaker of a client: DefaultCircuitBreakerConfig scaled to the model's bounds
CBIdle ==
    CBInitWith({[MaxFailures |-> MaxFailuresCap, MaxRequests |-> MaxRequestsCap,
                 Timeout |-> TimeoutTicks]})

\* the probe marks are dropped whenever the breaker is not HALF_OPEN afterwards
ProbeMarks(marks, b) == IF b.state = "HALF_OPEN" THEN marks ELSE [p \in Procs |-> FALSE]

\* Execute, first half: allowRequest; an admitted caller invokes the operation
CBExecuteBegin(p) ==
    /\ cbpc[p] = "idle"
    /\ LET r == allowRequest(cb, cbcfg, now)
           probing == r.ok /\ r.cb.state = "HALF_OPEN"
       IN  /\ cb' = r.cb
           /\ cbpc' = [cbpc EXCEPT ![p] = IF r.ok THEN "running" ELSE "idle"]
           /\ cbprobe' = [ProbeMarks(cbprobe, r.cb) EXCEPT ![p] = probing]
           /\ cblast' = [op |-> IF r.ok THEN "admit" ELSE "reject", p |-> p]
           /\ hoSucc' = IF cb.state = "OPEN" /\ r.cb.state = "HALF_OPEN" THEN 0 ELSE hoSucc
           /\ hoAdmitted' = IF ~probing THEN hoAdmitted
                            ELSE IF cb.state = "OPEN" THEN 1 ELSE hoAdmitted + 1
    /\ tripPending' = FALSE
    /\ UNCHANGED <<now, cbcfg, streak, hoFailAt>>
    /\ CBFrame

\* Execute, second half: the operation returned (err or nil) and recordResult runs
CBExecuteEnd(p, err) ==
    /\ cbpc[p] = "running"
    /\ LET b1 == recordResult(cb, cbcfg, err, now)
           s1 == IF err
                 THEN (IF cb.state = "CLOSED" THEN streak + 1 ELSE streak)
                 ELSE 0
       IN  /\ cb' = b1
           /\ cbprobe' = [ProbeMarks(cbprobe, b1) EXCEPT ![p] = FALSE]
           /\ streak' = s1
           /\ tripPending' = (tripPending \/
                              (err /\ cb.state = "CLOSED" /\ s1 >= cbcfg.MaxFailures))
           /\ hoSucc' = IF cb.state = "HALF_OPEN"
                        THEN (IF err THEN 0 ELSE hoSucc + 1)
                        ELSE hoSucc
           /\ hoFailAt' = IF cb.state = "HALF_OPEN" /\ err THEN now ELSE hoFailAt
           /\ hoAdmitted' = IF b1.state = "HALF_OPEN" THEN hoAdmitted ELSE 0
    /\ cbpc' = [cbpc EXCEPT ![p] = "idle"]
    /\ cblast' = [op |-> IF err THEN "fail" ELSE "succeed", p |-> p]
    /\ UNCHANGED <<now, cbcfg>>
    /\ CBFrame

\* Client.ResetStabilityComponents -> CircuitBreaker.Reset
CBDoReset ==
    /\ cb' = CBReset(cb)
    /\ cbprobe' = [p \in Procs |-> FALSE]
    /\ cblast' = [op |-> "reset", p |-> 0]
    /\ streak' = 0
    /\ tripPending' = FALSE
    /\ hoSucc' = 0
    /\ hoFailAt' = ZeroTime
    /\ hoAdmitted' = 0
    /\ UNCHANGED <<now, cbcfg, cbpc>>
    /\ CBFrame

\* the clock advances
CBTick ==
    /\ now < MaxTime
    /\ now' = now + 1
    /\ cblast' = [op |-> "tick", p |-> 0]
    /\ UNCHANGED <<cbcfg, cb, cbpc, cbprobe, streak, tripPending, hoSucc, hoFailAt, hoAdmitted>>
    /\ CBFrame

CBNext ==
    \/ \E p \in Procs : CBExecuteBegin(p)
    \/ \E p \in Procs : \E err \in BOOLEAN : CBExecuteEnd(p, err)
    \/ CBDoReset
    \/ CBTick

----------------------------------------------------------------------------
(* Retry policy: src/internal/common/api_utils.go *)

\* an error value: api is TRUE when its dynamic type is *APIError (a wrapped
\* *APIError is not); origin names the place that produced it
Err(api, code, type, origin) == [api |-> api, code |-> code, type |-> type, origin |-> origin]
NoErr == Err(FALSE, 0, "", "none")

\* RetryConfig of the client: DefaultRetryConfig scaled to the model's bounds
RetryConfig == [MaxRetries |-> RetryMax, InitialDelay |-> 1, MaxDelay |-> RetryMaxDelay,
                Multiplier |-> 2]

\* the loop of CalculateBackoffDelay from its i-th round on
RECURSIVE BackoffLoop(_, _, _, _)
BackoffLoop(rc, delay, i, attempt) ==
    IF i >= attempt THEN delay
    ELSE LET d == delay * rc.Multiplier
         IN  IF d > rc.MaxDelay THEN rc.MaxDelay ELSE BackoffLoop(rc, d, i + 1, attempt)

\* RetryConfig.CalculateBackoffDelay(attempt)
CalculateBackoffDelay(rc, attempt) ==
    IF attempt <= 0 THEN rc.InitialDelay ELSE BackoffLoop(rc, rc.InitialDelay, 0, attempt)

\* IsRetryableError(err) for err # nil
IsRetryableError(err) ==
    IF err.api
    THEN IF err.type = "auth" THEN FALSE
         ELSE IF err.code >= 400 /\ err.code < 500 /\ err.code # 429 THEN FALSE
         ELSE err.code >= 500 \/ err.code = 429
    ELSE TRUE

\* ShouldRetry(err, attempt, config)
ShouldRetry(err, attempt, rc) ==
    IF attempt >= rc.MaxRetries THEN FALSE ELSE IsRetryableError(err)

----------------------------------------------------------------------------
(* Client: src/unnamed/part_011, DoRequest; src/unnamed/part_004, ExecuteRequest *)

\* what the remote side does to one attempt: the token endpoint's answer should a
\* refresh be needed, whether the transport delivers, and the HTTP status and the
\* code of the JSON body (0 also stands for a body that does not parse)
StatusCodes == {200, 400, 429, 500}
BodyCodes == {0, 404, 1254043}
AllEnvs == [token : {"ok", "network", "auth"}, expire : 1..MaxExpire, net : BOOLEAN,
            status : StatusCodes, bodyCode : BodyCodes]
\* the fields nothing reads are pinned: no transport after a failed token request,
\* no response after a failed transport
Envs == {e \in AllEnvs :
            /\ e.token # "ok" => (e.expire = 1 /\ ~e.net)
            /\ ~e.net => (e.status = 200 /\ e.bodyCode = 0)}

\* getAccessToken as one caller runs it: the token state afterwards and the error.
\* The *APIError of refreshToken comes back wrapped by fmt.Errorf("...%w").
getAccessToken(tk, mode, t, env) ==
    IF ~NeedsRefresh(t, tk.tokenExpiry) THEN [tok |-> tk, err |-> NoErr, refreshed |-> FALSE]
    ELSE IF mode = "user" THEN [tok |-> refreshUser(t), err |-> NoErr, refreshed |-> FALSE]
    ELSE IF env.token = "ok"
         THEN [tok |-> refreshTenant(tk, t, env.expire), err |-> NoErr, refreshed |-> TRUE]
         ELSE [tok |-> tk, err |-> Err(FALSE, 0, env.token, "token"), refreshed |-> TRUE]

\* ConnectionPool.ExecuteRequest: updateRequestStats(true), the round trip,
\* and updateRequestStats(false) when the transport failed
ExecuteRequest(pl, env) ==
    LET p1 == [pl EXCEPT !.total = pl.total + 1]
    IN  IF env.net
        THEN [pool |-> p1, err |-> NoErr]
        ELSE [pool |-> [p1 EXCEPT !.total = p1.total + 1, !.failed = p1.failed + 1],
              err |-> Err(FALSE, 0, "", "network")]

\* the function handed to circuitBreaker.Execute: token, then the HTTP round trip
operation(st, mode, t, env) ==
    LET g == getAccessToken(st.tok, mode, t, env)
    IN  IF g.err # NoErr
        THEN [st EXCEPT !.tok = g.tok, !.err = g.err, !.refreshed = g.refreshed]
        ELSE LET x == ExecuteRequest(st.pool, env)
             IN  [st EXCEPT !.tok = g.tok, !.refreshed = g.refreshed, !.pool = x.pool,
                            !.err = x.err, !.sent = TRUE]

\* the status check of doSingleRequest on a response that was received
classify(env) ==
    IF env.status < 200 \/ env.status >= 300
    THEN IF env.bodyCode # 0 THEN Err(TRUE, env.bodyCode, "api", "http")
         ELSE Err(FALSE, env.status, "", "http")
    ELSE NoErr

\* doSingleRequest recording a rejection by the rate limiter as a failure of the
\* breaker
doSingleRequest_LimiterCounts(st, c, mode, t, env) ==
    LET a  == Allow(st.tb, t)
        s0 == [st EXCEPT !.tb = a.tb, !.err = NoErr, !.sent = FALSE, !.refreshed = FALSE]
    IN  IF ~a.ok THEN [s0 EXCEPT !.err = Err(TRUE, 429, "rate_limit", "limiter"),
                                 !.cb = recordResult(s0.cb, c, TRUE, t)]
        ELSE LET r == allowRequest(s0.cb, c, t)
             IN  IF ~r.ok
                 THEN [s0 EXCEPT !.cb = r.cb, !.err = Err(FALSE, 0, "", "circuit")]
                 ELSE LET s1 == operation([s0 EXCEPT !.cb = r.cb], mode, t, env)
                          s2 == [s1 EXCEPT !.cb = recordResult(s1.cb, c, s1.err # NoErr, t)]
                      IN  IF s2.err # NoErr THEN s2
                          ELSE [s2 EXCEPT !.err = classify(env)]

\* doSingleRequest: rate limiter, circuitBreaker.Execute(operation), status check.
\* st holds the bucket, the breaker, the token and the pool; the result holds them
\* afterwards, the error returned, and whether an HTTP request / a refresh was made.
doSingleRequest(st, c, mode, t, env) ==
    LET a  == Allow(st.tb, t)
        s0 == [st EXCEPT !.tb = a.tb, !.err = NoErr, !.sent = FALSE, !.refreshed = FALSE]
    IN  IF ~a.ok THEN [s0 EXCEPT !.err = Err(TRUE, 429, "rate_limit", "limiter")]
        ELSE LET r == allowRequest(s0.cb, c, t)
             IN  IF ~r.ok
                 THEN [s0 EXCEPT !.cb = r.cb, !.err = Err(FALSE, 0, "", "circuit")]
                 ELSE LET s1 == operation([s0 EXCEPT !.cb = r.cb], mode, t, env)
                          s2 == [s1 EXCEPT !.cb = recordResult(s1.cb, c, s1.err # NoErr, t)]
                      IN  IF s2.err # NoErr THEN s2
                          ELSE [s2 EXCEPT !.err = classify(env)]

NewPool == [total |-> 0, failed |-> 0]

\* the caller of DoRequest before a call: ctx is the state of the context it
\* passes; status and code are the HTTP status and the body code of the response
\* its last attempt received (0: none); attempts, sent and refreshes count the
\* attempts of the call, the HTTP requests and the token requests they made
IdleRequest ==
    [pc |-> "idle", ctx |-> "live", attempt |-> 0, wake |-> 0, lastErr |-> NoErr,
     result |-> "none", status |-> 0, code |-> 0, attempts |-> 0, sent |-> 0,
     refreshes |-> 0, calls |-> 0]

ClientInit ==
    /\ pool = NewPool
    /\ req = IdleRequest

\* DoRequest with a valid request: enter doRequestWithRetry with attempt 0
DoRequestBegin ==
    /\ req.pc = "idle"
    /\ req.calls < MaxDoRequests
    /\ req' = [IdleRequest EXCEPT !.pc = "attempt", !.calls = req.calls + 1]
    /\ UNCHANGED <<now, cb, tb, tok, pool>>
    /\ ClientFrame

\* one round of the loop after the back-off: doSingleRequest, then return the
\* response, or break with the error, or go to sleep before the next attempt
DoRequestAttempt(env) ==
    /\ req.pc = "attempt"
    \* with the context cancelled no token request and no transport succeeds
    /\ req.ctx = "cancelled" => (env.token = "network" /\ ~env.net)
    /\ \E r \in {doSingleRequest([tb |-> tb, cb |-> cb, tok |-> tok, pool |-> pool,
                                  err |-> NoErr, sent |-> FALSE, refreshed |-> FALSE],
                                 cbcfg, authType, now, env)} :
       \E r1 \in {[req EXCEPT !.attempts = req.attempts + 1,
                              !.sent = req.sent + (IF r.sent THEN 1 ELSE 0),
                              !.refreshes = req.refreshes + (IF r.refreshed THEN 1 ELSE 0),
                              !.status = IF r.sent /\ r.err.origin # "network"
                                         THEN env.status ELSE 0,
                              !.code = IF r.sent /\ r.err.origin # "network"
                                       THEN env.bodyCode ELSE 0,
                              !.lastErr = r.err]} :
           /\ tb' = r.tb
           /\ cb' = r.cb
           /\ tok' = r.tok
           /\ pool' = r.pool
           /\ req' = IF r.err = NoErr
                     THEN [r1 EXCEPT !.pc = "idle", !.result = "response"]
                     ELSE IF ~ShouldRetry(r.err, req.attempt, RetryConfig)
                     THEN [r1 EXCEPT !.pc = "idle", !.result = "error"]
                     ELSE [r1 EXCEPT !.pc = "backoff", !.attempt = req.attempt + 1,
                                     !.wake = now + CalculateBackoffDelay(RetryConfig,
                                                                          req.attempt + 1)]
    /\ UNCHANGED now
    /\ ClientFrame

\* the select of the back-off takes its time.After case: on to the next attempt
DoRequestWake ==
    /\ req.pc = "backoff"
    /\ now >= req.wake
    /\ req' = [req EXCEPT !.pc = "attempt"]
    /\ UNCHANGED <<now, cb, tb, tok, pool>>
    /\ ClientFrame

\* the caller's context is cancelled while DoRequest runs
CtxCancel ==
    /\ req.pc # "idle"
    /\ req.ctx = "live"
    /\ req' = [req EXCEPT !.ctx = "cancelled"]
    /\ UNCHANGED <<now, cb, tb, tok, pool>>
    /\ ClientFrame

\* the ctx.Done() case of the select, returning the last error instead
ctxDone_LastErr(r) == [r EXCEPT !.pc = "idle", !.result = "error"]

\* the ctx.Done() case of the select: return nil, ctx.Err()
ctxDone(r) == [r EXCEPT !.pc = "idle", !.result = "cancelled"]

\* the select of the back-off takes its ctx.Done() case
DoRequestCancel ==
    /\ req.pc = "backoff"
    /\ req.ctx = "cancelled"
    /\ req' = ctxDone(req)
    /\ UNCHANGED <<now, cb, tb, tok, pool>>
    /\ ClientFrame

ClientTick ==
    /\ now < ClientMaxTime
    /\ now' = now + 1
    /\ UNCHANGED <<cb, tb, tok, pool, req>>
    /\ ClientFrame

ClientNext ==
    \/ DoRequestBegin
    \/ \E env \in Envs : DoRequestAttempt(env)
    \/ DoRequestWake
    \/ CtxCancel
    \/ DoRequestCancel
    \/ ClientTick

----------------------------------------------------------------------------
(* Record operations: src/unnamed/part_010, getRecordsWithLimit;           *)
(* src/callbacks.go, queryCallback, executeRawUpdate, executeRawDelete;    *)
(* src/models.go, the list response types.  DoRequest is its outcome here: *)
(* an error, or a response whose body the caller decodes.                  *)

\* the record ids of a table of n records, in the order the service emits them
Records(n) == [i \in 1..n |-> i]

Min(a, b) == IF a < b THEN a ELSE b

\* the data object of a list response: the page of size records after offset off.
\* page_token is the offset of the next page (0 stands for the empty token).
ListPage(records, off, size) ==
    LET more == off + size < Len(records)
    IN  [items |-> SubSeq(records, off + 1, Min(off + size, Len(records))),
         has_more |-> more,
         page_token |-> IF more THEN off + size ELSE 0]

\* the data object of a service that keeps has_more = true: with the empty
\* page_token ("empty_token"), or with the page_token it gave before ("same_token")
StickyPage(wire, records, off, size) ==
    [ListPage(records, off, size) EXCEPT
        !.has_more = TRUE,
        !.page_token = IF wire = "empty_token" THEN 0
                       ELSE IF off = 0 THEN size ELSE off]

\* what DoRequest hands back for a list request: out is "ok", "code" (HTTP 200
\* whose body carries a non-zero code and no data) or "error" (DoRequest failed).
\* The body is a JSON object: the envelope {code, data} of the service, or, for
\* the shape "bare", the data object alone.
ListResponse(s, out, off, size) ==
    IF out = "error" THEN [err |-> TRUE, body |-> [code |-> 0]]
    ELSE IF out = "code" THEN [err |-> FALSE, body |-> [code |-> 1254043]]
    ELSE [err |-> FALSE,
          body |-> IF s.wire = "envelope"
                   THEN [code |-> 0, data |-> ListPage(s.records, off, size)]
                   ELSE IF s.wire = "bare" THEN ListPage(s.records, off, size)
                   ELSE [code |-> 0, data |-> StickyPage(s.wire, s.records, off, size)]]

\* json.Unmarshal(body, &ListRecordsResponse{}): the keys has_more, page_token
\* and items of the object itself; keys it does not carry leave the zero value
DecodeListRecordsResponse(body) ==
    [HasMore |-> IF "has_more" \in DOMAIN body THEN body.has_more ELSE FALSE,
     PageToken |-> IF "page_token" \in DOMAIN body THEN body.page_token ELSE 0,
     Items |-> IF "items" \in DOMAIN body THEN body.items ELSE <<>>]

\* json.Unmarshal(body, &ListRecordsAPIResponse{}): code and data of the
\* envelope; Data is a pointer, <<>> when nil
DecodeListRecordsAPIResponse(body) ==
    [Code |-> IF "code" \in DOMAIN body THEN body.code ELSE 0,
     Data |-> IF "data" \in DOMAIN body THEN <<DecodeListRecordsResponse(body.data)>>
              ELSE <<>>]

\* the loop over apiResp.Data.Items of getRecordsWithLimit: append, and stop as
\* soon as a positive limit is reached
RECURSIVE appendItems(_, _, _)
appendItems(all, items, limit) ==
    IF items = <<>> THEN all
    ELSE LET a == Append(all, Head(items))
         IN  IF limit > 0 /\ Len(a) >= limit THEN a
             ELSE appendItems(a, Tail(items), limit)

\* the caller of getRecordsWithLimit before a call; requests and pages are the
\* list requests it made and the pages the service emitted to it, table the
\* records of the table when it began; where is cmd.Condition of the SELECT
\* (<<>> without WHERE, <<e>> for WHERE name = e) and rows what it displays
IdlePaginator ==
    [pc |-> "idle", limit |-> -1, pageToken |-> 0, pageNum |-> 1, allRecords |-> <<>>,
     err |-> FALSE, requests |-> 0, pages |-> <<>>, table |-> <<>>,
     where |-> <<>>, rows |-> <<>>]

\* the value of the field name of a record: the records of a table alternate
\* between two values
NameOf(record) == record % 2

\* the conditions of a SELECT: none, or WHERE name = expected
Conditions == {<<>>} \cup {<<expected>> : expected \in {0, 1}}

\* filterRecords: every record without conditions, else those whose field equals
\* the expected value, in the order of records
filterRecords(records, conditions) ==
    IF Len(conditions) = 0 THEN records
    ELSE LET match(record) == NameOf(record) = conditions[1]
         IN  SelectSeq(records, match)

\* selectData after getRecordsWithLimit returned: an error is returned as it
\* is, else the fetched records are filtered and displayed
selectData(p) ==
    IF p.pc = "done" /\ ~p.err
    THEN [p EXCEPT !.rows = filterRecords(p.allRecords, p.where)]
    ELSE p

\* one round of getRecordsWithLimit's loop that stops after the first page
getRecordsPage_FirstPageOnly(p, resp) ==
    IF resp.err THEN [p EXCEPT !.pc = "done", !.err = TRUE, !.allRecords = <<>>]
    ELSE LET apiResp == DecodeListRecordsAPIResponse(resp.body)
         IN  IF apiResp.Code # 0 \/ apiResp.Data = <<>>
             THEN [p EXCEPT !.pc = "done", !.err = TRUE, !.allRecords = <<>>]
             ELSE [p EXCEPT !.pc = "done",
                            !.allRecords = appendItems(p.allRecords, apiResp.Data[1].Items,
                                                       p.limit)]

\* one round of getRecordsWithLimit's loop, given what DoRequest handed back
getRecordsPage(p, resp) ==
    IF resp.err THEN [p EXCEPT !.pc = "done", !.err = TRUE, !.allRecords = <<>>]
    ELSE LET apiResp == DecodeListRecordsAPIResponse(resp.body)
         IN  IF apiResp.Code # 0 \/ apiResp.Data = <<>>
             THEN [p EXCEPT !.pc = "done", !.err = TRUE, !.allRecords = <<>>]
             ELSE LET all == appendItems(p.allRecords, apiResp.Data[1].Items, p.limit)
                      p1  == [p EXCEPT !.allRecords = all]
                  IN  IF p.limit > 0 /\ Len(all) >= p.limit THEN [p1 EXCEPT !.pc = "done"]
                      ELSE IF ~apiResp.Data[1].HasMore THEN [p1 EXCEPT !.pc = "done"]
                      ELSE [p1 EXCEPT !.pageToken = apiResp.Data[1].PageToken,
                                      !.pageNum = p.pageNum + 1]

\* the caller of a query before it: rows is the destination slice, affected is
\* db.RowsAffected, table the records of the table when it began
IdleQuery == [pc |-> "idle", rows |-> <<>>, affected |-> 0, err |-> FALSE, table |-> <<>>]

\* queryCallback without WHERE into a slice, from the response of its one
\* DoRequest on: decode the envelope, set the destination, set RowsAffected
queryCallback(q, resp) ==
    IF resp.err THEN [q EXCEPT !.pc = "done", !.err = TRUE]
    ELSE LET apiResp == DecodeListRecordsAPIResponse(resp.body)
         IN  IF apiResp.Code # 0 THEN [q EXCEPT !.pc = "done", !.err = TRUE]
             ELSE IF apiResp.Data = <<>> THEN [q EXCEPT !.pc = "done", !.err = TRUE]
             ELSE [q EXCEPT !.pc = "done", !.rows = apiResp.Data[1].Items,
                            !.affected = Len(apiResp.Data[1].Items)]

\* the caller of a raw statement before it: affected is db.RowsAffected; table,
\* listed, issued and succeeded are the records of the table when the statement
\* began, the outcome of its list request, the per-record calls made and those
\* DoRequest returned without error.  path and sql are the entry it came in by
\* and its text, warned is set when the no-WHERE warning and confirmation
\* prompt of deleteData were printed, secErr when ValidateSQL rejected the text
IdleRaw ==
    [pc |-> "idle", kind |-> "none", items |-> <<>>, idx |-> 0, successCount |-> 0,
     affected |-> 0, err |-> FALSE, table |-> <<>>, listed |-> "none", issued |-> 0,
     succeeded |-> 0, path |-> "none", sql |-> <<>>, warned |-> FALSE, secErr |-> FALSE]

\* the texts of the statements, as their words; none of them has a WHERE
Statements ==
    {<<"DELETE", "FROM", "t">>,
     <<"UPDATE", "t", "SET", "a=1">>,
     <<"UPDATE", "t", "SET", "a=1", "--">>,
     <<"UPDATE", "t", "SET", "a=1", "OR", "1=1">>}

\* the command line (Executor.Execute) or db.Exec of the ORM (rawCallback)
EntryPaths == {"cli", "orm"}

\* the first of dangerousPatterns: two adjacent words, in any case
DangerousPairs ==
    {<<"UNION", "SELECT">>, <<"DROP", "TABLE">>, <<"DELETE", "FROM">>,
     <<"INSERT", "INTO">>, <<"UPDATE", "SET">>, <<"OR", "1=1">>, <<"AND", "1=1">>,
     <<"WAITFOR", "DELAY">>}

\* the words the other patterns find anywhere in the text
DangerousWords == {"--", "/*", "*/", "#", "SLEEP(", "BENCHMARK(", "INFORMATION_SCHEMA"}

\* SQLInjectionValidator.ValidateSQL(sql) returns an error
ValidateSQL(sql) ==
    \/ \E i \in 1..Len(sql) : sql[i] \in DangerousWords
    \/ \E i \in 1..(Len(sql) - 1) : <<sql[i], sql[i + 1]>> \in DangerousPairs

\* parseRawSQL: the command type is the prefix of the upper-cased text
parseRawSQL(sql) ==
    IF sql # <<>> /\ Head(sql) \in {"SELECT", "UPDATE", "INSERT", "DELETE"} THEN Head(sql)
    ELSE "none"

\* parseUpdateSQL succeeds: UPDATE table SET pair, each pair of the SET clause
\* splitting at "=" into two parts exactly
parseUpdateSQL(sql) ==
    /\ Len(sql) >= 4
    /\ sql[3] = "SET"
    /\ Cardinality({i \in 4..Len(sql) : sql[i] \in {"a=1", "1=1"}}) = 1

\* rawCallback for an UPDATE or DELETE: parse, then executeRawUpdate /
\* executeRawDelete, which begin with the list request
rawCallback(r) ==
    IF parseRawSQL(r.sql) = "DELETE" \/ (parseRawSQL(r.sql) = "UPDATE" /\ parseUpdateSQL(r.sql))
    THEN [r EXCEPT !.pc = "list", !.kind = parseRawSQL(r.sql)]
    ELSE [r EXCEPT !.pc = "done", !.err = TRUE]

\* Executor.deleteData, cmd.Where = "": print the warning and the prompt, read
\* no answer, and hand the text to db.Exec
deleteData(r) == rawCallback([r EXCEPT !.warned = TRUE])

\* Executor.updateData: hand the text to db.Exec
updateData(r) == rawCallback(r)

\* Executor.Execute: ValidateSQL first, then the dispatch on the command type
Execute(r) ==
    IF ValidateSQL(r.sql) THEN [r EXCEPT !.pc = "done", !.err = TRUE, !.secErr = TRUE]
    ELSE IF parseRawSQL(r.sql) = "DELETE" THEN deleteData(r)
    ELSE updateData(r)

\* executeRawUpdate / executeRawDelete, cmd.Where = "": the list request and the
\* decoding of its body into a ListRecordsResponse
listAll(r, resp) ==
    IF resp.err THEN [r EXCEPT !.pc = "done", !.err = TRUE]
    ELSE LET listResp == DecodeListRecordsResponse(resp.body)
         IN  IF Len(listResp.Items) = 0 THEN [r EXCEPT !.pc = "done", !.affected = 0]
             ELSE [r EXCEPT !.pc = "each", !.items = listResp.Items, !.idx = 1]

\* one round of the loop of executeRawDelete over listResp.Items, and the
\* assignment of RowsAffected after the last
deleteEach(r, failed) ==
    IF failed THEN [r EXCEPT !.pc = "done", !.err = TRUE]
    ELSE IF r.idx < Len(r.items) THEN [r EXCEPT !.idx = r.idx + 1]
    ELSE [r EXCEPT !.pc = "done", !.affected = Len(r.items)]

\* one round of the loop of executeRawUpdate, counting successCount
updateEach(r, failed) ==
    IF failed THEN [r EXCEPT !.pc = "done", !.err = TRUE]
    ELSE IF r.idx < Len(r.items)
         THEN [r EXCEPT !.idx = r.idx + 1, !.successCount = r.successCount + 1]
    ELSE [r EXCEPT !.pc = "done", !.successCount = r.successCount + 1,
                   !.affected = r.successCount + 1]

\* the table after DELETE records/{id}
DeleteRecord(records, id) == SelectSeq(records, LAMBDA x : x # id)

RecInitWith(sizes, wires) ==
    /\ srv \in [records : {Records(n) : n \in sizes}, wire : wires, ops : {0}]
    /\ pag = IdlePaginator
    /\ qry = IdleQuery
    /\ raw = IdleRaw

RecInit == RecInitWith(0..MaxRecords, {"envelope", "bare", "empty_token", "same_token"})

RecIdle == RecInitWith({0}, {"envelope"})

\* one statement at a time: the previous one has returned
CanStart ==
    /\ pag.pc \in {"idle", "done"}
    /\ qry.pc \in {"idle", "done"}
    /\ raw.pc \in {"idle", "done"}
    /\ srv.ops < MaxOps

Outcomes == {"ok", "code", "error"}

\* selectData calls getRecordsWithLimit(ctx, tableID, limit) for a SELECT with
\* the given conditions
PagBegin(limit, conditions) ==
    /\ CanStart
    /\ pag' = [IdlePaginator EXCEPT !.pc = "page", !.limit = limit, !.table = srv.records,
                                    !.where = conditions]
    /\ srv' = [srv EXCEPT !.ops = srv.ops + 1]
    /\ UNCHANGED <<qry, raw>>
    /\ RecFrame

\* one round of its loop: GET records?page_size=..&page_token=.., then the body
PagPage(out) ==
    /\ pag.pc = "page"
    /\ pag.requests < MaxPagRequests
    /\ \E resp \in {ListResponse(srv, out, pag.pageToken, PageSize)} :
          pag' = selectData([getRecordsPage(pag, resp) EXCEPT
                     !.requests = pag.requests + 1,
                     !.pages = IF ~resp.err /\ out = "ok" /\ srv.wire = "envelope"
                               THEN Append(pag.pages, resp.body.data.items)
                               ELSE pag.pages])
    /\ UNCHANGED <<srv, qry, raw>>
    /\ RecFrame

\* queryCallback: one GET records without page parameters
QueryRun(out) ==
    /\ CanStart
    /\ qry' = queryCallback([IdleQuery EXCEPT !.table = srv.records],
                            ListResponse(srv, out, 0, DefaultPageSize))
    /\ srv' = [srv EXCEPT !.ops = srv.ops + 1]
    /\ UNCHANGED <<pag, raw>>
    /\ RecFrame

\* a raw UPDATE or DELETE without WHERE is executed: on the command line through
\* Executor.Execute, from the ORM through rawCallback
RawBegin(path, sql) ==
    /\ CanStart
    /\ \E r \in {[IdleRaw EXCEPT !.path = path, !.sql = sql, !.table = srv.records]} :
          raw' = IF path = "cli" THEN Execute(r) ELSE rawCallback(r)
    /\ srv' = [srv EXCEPT !.ops = srv.ops + 1]
    /\ UNCHANGED <<pag, qry>>
    /\ RecFrame

\* its list request: one GET records without page parameters
RawList(out) ==
    /\ raw.pc = "list"
    /\ raw' = [listAll(raw, ListResponse(srv, out, 0, DefaultPageSize)) EXCEPT
                   !.listed = out]
    /\ UNCHANGED <<srv, pag, qry>>
    /\ RecFrame

\* one per-record PUT / DELETE; the service applies it when it answers code 0
RawEach(out) ==
    /\ raw.pc = "each"
    /\ \E r \in {IF raw.kind = "DELETE" THEN deleteEach(raw, out = "error")
                 ELSE updateEach(raw, out = "error")} :
          raw' = [r EXCEPT !.issued = raw.issued + 1,
                           !.succeeded = raw.succeeded + (IF out = "error" THEN 0 ELSE 1)]
    /\ srv' = IF raw.kind = "DELETE" /\ out = "ok"
              THEN [srv EXCEPT !.records = DeleteRecord(srv.records, raw.items[raw.idx])]
              ELSE srv
    /\ UNCHANGED <<pag, qry>>
    /\ RecFrame

RecNext ==
    \/ \E limit \in -1..MaxRecords, conditions \in Conditions : PagBegin(limit, conditions)
    \/ \E out \in Outcomes : PagPage(out)
    \/ \E out \in Outcomes : QueryRun(out)
    \/ \E path \in EntryPaths, sql \in Statements : RawBegin(path, sql)
    \/ \E out \in Outcomes : RawList(out)
    \/ \E out \in Outcomes : RawEach(out)

----------------------------------------------------------------------------
(* SQL translation: src/sql.go, SQLConverter; src/callbacks.go,            *)
(* buildFilterFromWhere.  A text is the sequence of its characters.        *)

\* the characters a LIKE pattern is drawn from: a letter and the two wildcards
Chars == {"a", "%", "_"}

Patterns == UNION {[1..n -> Chars] : n \in 0..MaxPatLen}

\* the column of the predicate; "" is a clause whose column is not a clause.Column
Columns == {"", "name"}

\* strings.ReplaceAll(s, ch, "")
ReplaceAll(s, ch) == SelectSeq(s, LAMBDA c : c # ch)

FilterCondition(field, operator, value) ==
    [FieldName |-> field, Operator |-> operator, Value |-> value]

\* SQLConverter.buildLikeCondition(clause.Like{Column, Value}): the conditions
\* it contributes, none when it returns nil
buildLikeCondition(column, value) ==
    IF column = "" THEN <<>>
    ELSE <<FilterCondition(column, "contains", <<value>>)>>

\* SQLConverter.buildExprCondition(clause.Expr{SQL: column + " LIKE ?", Vars: {value}})
buildExprCondition(column, value) ==
    IF column = "" THEN <<>>
    ELSE <<FilterCondition(column, "contains", <<value>>)>>

\* buildFilterFromWhere(column + " LIKE '" + value + "'"): of operatorPatterns
\* only (\w+)\s+LIKE\s+['"]*([^'"]+)['"]* can match a text over Chars; its
\* second group needs one character at least
buildFilterFromWhere(column, value) ==
    IF column = "" \/ value = <<>> THEN <<>>
    ELSE <<FilterCondition(column, "contains",
                           <<ReplaceAll(ReplaceAll(value, "%"), "_")>>)>>

LikePaths == {"raw", "like", "expr"}

IdleFilter == [pc |-> "idle", path |-> "raw", column |-> "name", pattern |-> <<>>,
               conds |-> <<>>]

FltIdle == flt = IdleFilter

FltInit ==
    flt \in [pc : {"idle"}, path : LikePaths, column : Columns, pattern : Patterns,
             conds : {<<>>}]


FltFrame == UNCHANGED <<now, cbVars, tbVars, tokVars, clVars, recVars, remote, mig, conv, cls>>

\* the predicate reaches the translation of its path
FltTranslate ==
    /\ flt.pc = "idle"
    /\ flt' = [flt EXCEPT !.pc = "done",
                          !.conds = CASE flt.path = "raw" ->
                                             buildFilterFromWhere(flt.column, flt.pattern)
                                      [] flt.path = "like" ->
                                             buildLikeCondition(flt.column, flt.pattern)
                                      [] OTHER ->
                                             buildExprCondition(flt.column, flt.pattern)]
    /\ FltFrame

\* the next statement
FltRestart ==
    /\ flt.pc = "done"
    /\ \E p \in LikePaths : flt' = [flt EXCEPT !.pc = "idle", !.path = p, !.conds = <<>>]
    /\ FltFrame

FltNext ==
    \/ FltTranslate
    \/ FltRestart

----------------------------------------------------------------------------
(* Migration: src/migrator.go, Migrator; src/models.go, the field type     *)
(* codes and the list response types.                                      *)

FieldTypeText == 1
FieldTypeNumber == 2
FieldTypeDate == 5
FieldTypeCheckbox == 7

\* Migrator.getFieldType(field), by field.DataType
getFieldType(dataType) ==
    CASE dataType = "bool" -> FieldTypeCheckbox
      [] dataType \in {"int", "uint", "float"} -> FieldTypeNumber
      [] dataType = "string" -> FieldTypeText
      [] dataType = "time" -> FieldTypeDate
      [] OTHER -> FieldTypeText

\* the data types of the host fields a and b
HostTypes == {"string", "int", "bool"}

\* the names of the remote fields, in the order the service lists them
FieldNames == <<"a", "b">>

\* schemaValue.Fields of the migrated model: the auto-increment key and two columns
Schema(typeA, typeB) ==
    <<[DBName |-> "id", DataType |-> "uint", AutoIncrement |-> TRUE],
      [DBName |-> "a", DataType |-> typeA, AutoIncrement |-> FALSE],
      [DBName |-> "b", DataType |-> typeB, AutoIncrement |-> FALSE]>>

\* the type codes of a remote field; 0 stands for a field the table does not have
RemoteTypes == {0, FieldTypeText, FieldTypeNumber, FieldTypeCheckbox}

\* the data object of a list-tables response: the names of the tables
TablesData(rm) == [items |-> IF rm.exists THEN <<"other", "t">> ELSE <<"other">>]

\* the data object of a list-fields response: the Field objects of the table
FieldsData(rm) ==
    LET all == [i \in 1..Len(FieldNames) |->
                   [FieldName |-> FieldNames[i], Type |-> rm.types[FieldNames[i]],
                    IsPrimary |-> rm.primary = FieldNames[i]]]
    IN  [items |-> SelectSeq(all, LAMBDA f : f.Type # 0)]

\* what DoRequest hands back for a GET: an error, a body with a non-zero code,
\* or the data in the body shape of the service
Respond(rm, out, data) ==
    IF out = "error" THEN [err |-> TRUE, body |-> [code |-> 0]]
    ELSE IF out = "code" THEN [err |-> FALSE, body |-> [code |-> 1254043]]
    ELSE [err |-> FALSE,
          body |-> IF rm.wire = "envelope" THEN [code |-> 0, data |-> data] ELSE data]

\* json.Unmarshal(body, &ListTablesAPIResponse{}): Data is a pointer, <<>> when nil
DecodeListTablesAPIResponse(body) ==
    [Code |-> IF "code" \in DOMAIN body THEN body.code ELSE 0,
     Data |-> IF "data" \in DOMAIN body
              THEN <<[Items |-> IF "items" \in DOMAIN body.data THEN body.data.items
                                ELSE <<>>]>>
              ELSE <<>>]

\* json.Unmarshal(body, &ListFieldsResponse{}): the items key of the object itself
DecodeListFieldsResponse(body) ==
    [Items |-> IF "items" \in DOMAIN body THEN body.items ELSE <<>>]

\* Migrator.HasTable("t"), from the response of its list request on
HasTable(resp) ==
    IF resp.err THEN FALSE
    ELSE LET apiResp == DecodeListTablesAPIResponse(resp.body)
         IN  IF apiResp.Code # 0 \/ apiResp.Data = <<>> THEN FALSE
             ELSE \E i \in 1..Len(apiResp.Data[1].Items) : apiResp.Data[1].Items[i] = "t"

\* Migrator.getTableID("t") returns an id and no error
getTableID(resp) ==
    /\ ~resp.err
    /\ LET apiResp == DecodeListTablesAPIResponse(resp.body)
       IN  /\ apiResp.Code = 0
           /\ apiResp.Data # <<>>
           /\ \E i \in 1..Len(apiResp.Data[1].Items) : apiResp.Data[1].Items[i] = "t"

\* Migrator.getTableFields, from the response of its list-fields request on:
\* the fields of listResp.Items
getTableFields(resp) == DecodeListFieldsResponse(resp.body).Items

\* existingFields[name] is present
HasField(existing, name) == \E i \in 1..Len(existing) : existing[i].FieldName = name

\* existingFields[name]
FieldOf(existing, name) ==
    existing[CHOOSE i \in 1..Len(existing) : existing[i].FieldName = name]

\* the branch one round of the loop of UpdateColumns takes for a host field
reconcile(field, existing) ==
    IF field.AutoIncrement THEN "SKIP"
    ELSE IF HasField(existing, field.DBName)
         THEN IF FieldOf(existing, field.DBName).IsPrimary THEN "NOOP"
              ELSE IF FieldOf(existing, field.DBName).Type # getFieldType(field.DataType)
                   THEN "ALTER"
              ELSE "NOOP"
    ELSE "CREATE"

\* the caller of RunAutoMigrate before a call; sent are the POST / PUT requests
\* of the call, each with what the remote base held when it was sent
IdleMigrator ==
    [pc |-> "idle", schema |-> Schema("string", "string"), idx |-> 0, existing |-> <<>>,
     err |-> FALSE, sent |-> <<>>, runs |-> 0]

IdleRemote ==
    [exists |-> FALSE, types |-> [n \in {"a", "b"} |-> 0], primary |-> "a",
     wire |-> "envelope"]

MigIdle == remote = IdleRemote /\ mig = IdleMigrator

\* a table that does not exist has no fields
MigInit ==
    /\ remote \in [exists : BOOLEAN, types : [{"a", "b"} -> RemoteTypes],
                    primary : {"a", "none"}, wire : {"envelope", "bare"}]
    /\ ~remote.exists => (remote.types = IdleRemote.types /\ remote.primary = "a")
    /\ \E typeA \in HostTypes, typeB \in HostTypes :
          mig = [IdleMigrator EXCEPT !.schema = Schema(typeA, typeB)]


MigFrame == UNCHANGED <<now, cbVars, tbVars, tokVars, clVars, recVars, flt, conv, cls>>

\* the error of a request whose response is discarded: that of DoRequest
Failed(out) == out = "error"

\* the migrator after a step that returned err to the caller of RunAutoMigrate
MigReturn(g, err) == [g EXCEPT !.pc = "done", !.err = err]

\* RunAutoMigrate(value) is called
MigBegin ==
    /\ mig.pc \in {"idle", "done"}
    /\ mig.runs < MaxMigrations
    /\ mig' = [IdleMigrator EXCEPT !.pc = "createTable", !.schema = mig.schema,
                                    !.runs = mig.runs + 1]
    /\ UNCHANGED remote
    /\ MigFrame

\* createTable: HasTable decides between returning and the create request
MigCreateHasTable(out) ==
    /\ mig.pc = "createTable"
    /\ mig' = [mig EXCEPT !.pc = IF HasTable(Respond(remote, out, TablesData(remote)))
                                 THEN "updateColumns" ELSE "postTable"]
    /\ UNCHANGED remote
    /\ MigFrame

\* createTable: POST tables with the fields of the schema that are not
\* auto-increment; the service creates the table when it answers code 0
MigPostTable(out) ==
    /\ mig.pc = "postTable"
    /\ \E g \in {[mig EXCEPT !.sent = Append(mig.sent,
                         [op |-> "createTable", name |-> "t", existed |-> remote.exists,
                          remoteType |-> 0, mapped |-> 0])]} :
          mig' = IF Failed(out) THEN MigReturn(g, TRUE)
                 ELSE [g EXCEPT !.pc = "updateColumns"]
    /\ remote' = IF out = "ok" /\ ~remote.exists
                 THEN [remote EXCEPT
                          !.exists = TRUE,
                          !.types = [n \in {"a", "b"} |->
                                        getFieldType(IF n = "a" THEN mig.schema[2].DataType
                                                     ELSE mig.schema[3].DataType)]]
                 ELSE remote
    /\ MigFrame

\* UpdateColumns: without the table there is nothing to update
MigUpdateHasTable(out) ==
    /\ mig.pc = "updateColumns"
    /\ mig' = IF HasTable(Respond(remote, out, TablesData(remote)))
              THEN [mig EXCEPT !.pc = "tableID"]
              ELSE MigReturn(mig, FALSE)
    /\ UNCHANGED remote
    /\ MigFrame

\* getTableFields: the table id first
MigGetTableID(out) ==
    /\ mig.pc = "tableID"
    /\ mig' = IF getTableID(Respond(remote, out, TablesData(remote)))
              THEN [mig EXCEPT !.pc = "fields"]
              ELSE MigReturn(mig, TRUE)
    /\ UNCHANGED remote
    /\ MigFrame

\* getTableFields: GET fields and the decoding of its body
MigGetFields(out) ==
    /\ mig.pc = "fields"
    /\ \E resp \in {Respond(remote, out, FieldsData(remote))} :
          mig' = IF resp.err THEN MigReturn(mig, TRUE)
                 ELSE [mig EXCEPT !.pc = "loop", !.idx = 1,
                                  !.existing = getTableFields(resp)]
    /\ UNCHANGED remote
    /\ MigFrame

\* the migrator after a round of the loop over schemaValue.Fields
MigAdvance(g) ==
    IF g.idx < Len(g.schema) THEN [g EXCEPT !.idx = g.idx + 1] ELSE MigReturn(g, FALSE)

\* one round of the loop of UpdateColumns: the branch of the field, and for
\* ALTER / CREATE updateField / addField, each a getTableID and then the request
MigField(outID, outReq) ==
    /\ mig.pc = "loop"
    /\ LET field  == mig.schema[mig.idx]
           branch == reconcile(field, mig.existing)
           sends  == branch \in {"ALTER", "CREATE"}
                        /\ getTableID(Respond(remote, outID, TablesData(remote)))
           g      == [mig EXCEPT !.sent = Append(mig.sent,
                         [op |-> IF branch = "ALTER" THEN "updateField" ELSE "addField",
                          name |-> field.DBName, existed |-> remote.exists,
                          remoteType |-> remote.types[field.DBName],
                          mapped |-> getFieldType(field.DataType)])]
       IN  /\ mig' = IF branch \in {"SKIP", "NOOP"} THEN MigAdvance(mig)
                     ELSE IF ~sends THEN MigReturn(mig, TRUE)
                     ELSE IF Failed(outReq) THEN MigReturn(g, TRUE)
                     ELSE MigAdvance(g)
           /\ remote' = IF sends /\ outReq = "ok" /\ remote.exists
                        THEN [remote EXCEPT
                                 !.types[field.DBName] =
                                     IF branch = "CREATE" /\ remote.types[field.DBName] # 0
                                     THEN remote.types[field.DBName]
                                     ELSE getFieldType(field.DataType)]
                        ELSE remote
    /\ MigFrame

MigNext ==
    \/ MigBegin
    \/ \E out \in Outcomes : MigCreateHasTable(out)
    \/ \E out \in Outcomes : MigPostTable(out)
    \/ \E out \in Outcomes : MigUpdateHasTable(out)
    \/ \E out \in Outcomes : MigGetTableID(out)
    \/ \E out \in Outcomes : MigGetFields(out)
    \/ \E outID \in Outcomes, outReq \in Outcomes : MigField(outID, outReq)

----------------------------------------------------------------------------
(* Field values: src/models.go, Field.ConvertFromGoValue and               *)
(* Field.ConvertToGoValue; src/callbacks.go, createCallback.  A Go value   *)
(* is a record of its dynamic type and its content, since the conversions  *)
(* switch on the type.  A time is counted in ticks, TicksPerMs to the      *)
(* millisecond; ZeroTime is time.Time{}.                                   *)

FieldTypeSingleSelect == 3
FieldTypeMultiSelect == 4
FieldTypeUser == 11
FieldTypeAttachment == 17
FieldTypeFormula == 22
FieldTypeLookup == 23
FieldTypeCreatedTime == 1001
FieldTypeAutoNumber == 1005

TicksPerMs == 2

Nil == [go |-> "nil", v |-> <<>>]
Str(x) == [go |-> "string", v |-> x]
Bool(x) == [go |-> "bool", v |-> x]
GoInt(x) == [go |-> "int", v |-> x]
I64(x) == [go |-> "int64", v |-> x]
F64(x) == [go |-> "float64", v |-> x]
Time(x) == [go |-> "time", v |-> x]
StrList(x) == [go |-> "[]string", v |-> x]
\* map[string]interface{}: a record of its keys
Map(x) == [go |-> "map", v |-> x]
\* []map[string]interface{}
MapList(x) == [go |-> "[]map", v |-> x]
\* []interface{}: a sequence of Go values
AnyList(x) == [go |-> "[]interface{}", v |-> x]

\* Field.IsSystemField and Field.IsReadOnly
IsSystemField(ft) == ft >= FieldTypeCreatedTime /\ ft <= FieldTypeAutoNumber
IsReadOnly(ft) == IsSystemField(ft) \/ ft = FieldTypeFormula \/ ft = FieldTypeLookup

\* the entries of a []string that are not ""
NonEmpty(list) == SelectSeq(list, LAMBDA x : x # "")

convertFromString(x) ==
    IF x.go = "string" THEN x ELSE Str("%v")

convertFromNumber(x) ==
    IF x.go \in {"int", "int64", "float64"} THEN F64(x.v) ELSE F64(0)

convertFromBool(x) ==
    CASE x.go = "bool" -> x
      [] x.go = "string" -> Bool(x.v \in {"true", "1", "yes", "on"})
      [] x.go \in {"int", "int64", "float64"} -> Bool(x.v # 0)
      [] OTHER -> Bool(FALSE)

\* v.Unix()*1000 + v.Nanosecond()/1000000 of a time; nil for the zero time
convertFromTime(x) ==
    IF x.go = "time" THEN (IF x.v = ZeroTime THEN Nil ELSE I64(x.v \div TicksPerMs))
    ELSE Nil

convertFromSingleSelect(x) ==
    CASE x.go = "string" -> IF x.v = "" THEN Nil ELSE Map([text |-> x.v])
      [] x.go = "map" -> IF "text" \in DOMAIN x.v THEN x
                         ELSE IF "name" \in DOMAIN x.v THEN Map([text |-> x.v.name])
                         ELSE Nil
      [] OTHER -> Nil

convertFromMultiSelect(x) ==
    IF x.go = "[]string"
    THEN MapList([i \in 1..Len(NonEmpty(x.v)) |-> [text |-> NonEmpty(x.v)[i]]])
    ELSE MapList(<<>>)

convertFromUserList(x) ==
    CASE x.go = "[]string" ->
             MapList([i \in 1..Len(NonEmpty(x.v)) |-> [id |-> NonEmpty(x.v)[i]]])
      [] x.go = "string" -> IF x.v # "" THEN MapList(<<[id |-> x.v]>>) ELSE MapList(<<>>)
      [] OTHER -> MapList(<<>>)

convertFromAttachmentList(x) ==
    IF x.go = "[]string"
    THEN MapList([i \in 1..Len(NonEmpty(x.v)) |-> [url |-> NonEmpty(x.v)[i]]])
    ELSE MapList(<<>>)

\* Field.ConvertFromGoValue(value) of a field of type ft
ConvertFromGoValue(ft, x) ==
    IF x = Nil THEN Nil
    ELSE CASE ft = FieldTypeText -> convertFromString(x)
           [] ft = FieldTypeNumber -> convertFromNumber(x)
           [] ft = FieldTypeCheckbox -> convertFromBool(x)
           [] ft \in {FieldTypeDate, FieldTypeCreatedTime} -> convertFromTime(x)
           [] ft = FieldTypeSingleSelect -> convertFromSingleSelect(x)
           [] ft = FieldTypeMultiSelect -> convertFromMultiSelect(x)
           [] ft = FieldTypeUser -> convertFromUserList(x)
           [] ft = FieldTypeAttachment -> convertFromAttachmentList(x)
           [] OTHER -> x

\* the text of a text object, "" when it has none
TextOf(x, key) == IF x.go = "map" /\ key \in DOMAIN x.v THEN <<x.v[key]>> ELSE <<>>

convertToString(x) ==
    CASE x.go = "string" -> x
      [] x.go = "[]interface{}" /\ Len(x.v) > 0 /\ TextOf(x.v[1], "text") # <<>> ->
             Str(TextOf(x.v[1], "text")[1])
      [] x.go = "map" /\ TextOf(x, "text") # <<>> -> Str(TextOf(x, "text")[1])
      [] OTHER -> Str("%v")

convertToFloat64(x) ==
    IF x.go \in {"float64", "int", "int64"} THEN F64(x.v) ELSE F64(0)

convertToBool(x) ==
    CASE x.go = "bool" -> x
      [] x.go = "string" -> Bool(x.v \in {"true", "1", "yes", "on"})
      [] OTHER -> Bool(FALSE)

\* time.Unix(v/1000, (v%1000)*1000000) of a millisecond count
convertToTime(x) ==
    IF x.go \in {"int64", "float64"} THEN Time(x.v * TicksPerMs) ELSE Time(ZeroTime)

convertToSingleSelect(x) ==
    CASE x.go = "map" /\ TextOf(x, "text") # <<>> -> Str(TextOf(x, "text")[1])
      [] x.go = "map" /\ TextOf(x, "name") # <<>> -> Str(TextOf(x, "name")[1])
      [] x.go = "string" -> x
      [] OTHER -> Str("")

\* the loop of the list conversions over a []interface{}: of each map the text
\* under the first of keys it has, of each string (when strings is set) itself
RECURSIVE collect(_, _, _)
collect(items, keys, strings) ==
    IF items = <<>> THEN <<>>
    ELSE LET x == Head(items)
             found == IF x.go = "map"
                      THEN (IF TextOf(x, keys[1]) # <<>> THEN TextOf(x, keys[1])
                            ELSE IF Len(keys) > 1 THEN TextOf(x, keys[2])
                            ELSE <<>>)
                      ELSE IF x.go = "string" /\ strings THEN <<x.v>>
                      ELSE <<>>
         IN  found \o collect(Tail(items), keys, strings)

\* the assertion value.([]interface{}) holds for no other slice type
convertToMultiSelect(x) ==
    IF x.go = "[]interface{}" THEN StrList(collect(x.v, <<"text", "name">>, TRUE))
    ELSE StrList(<<>>)

convertToUserList(x) ==
    IF x.go = "[]interface{}" THEN StrList(collect(x.v, <<"id">>, TRUE))
    ELSE StrList(<<>>)

convertToAttachmentList(x) ==
    IF x.go = "[]interface{}" THEN StrList(collect(x.v, <<"url", "token">>, FALSE))
    ELSE StrList(<<>>)

\* Field.ConvertToGoValue(value) of a field of type ft
ConvertToGoValue(ft, x) ==
    IF x = Nil THEN Nil
    ELSE CASE ft = FieldTypeText -> convertToString(x)
           [] ft = FieldTypeNumber -> convertToFloat64(x)
           [] ft = FieldTypeCheckbox -> convertToBool(x)
           [] ft \in {FieldTypeDate, FieldTypeCreatedTime} -> convertToTime(x)
           [] ft = FieldTypeSingleSelect -> convertToSingleSelect(x)
           [] ft = FieldTypeMultiSelect -> convertToMultiSelect(x)
           [] ft = FieldTypeUser -> convertToUserList(x)
           [] ft = FieldTypeAttachment -> convertToAttachmentList(x)
           [] OTHER -> x

\* json.Marshal of a wire value and json.Unmarshal of the text into an
\* interface{}: numbers come back as float64, slices as []interface{}
JSONRoundTrip(x) ==
    CASE x.go \in {"int", "int64"} -> F64(x.v)
      [] x.go = "[]map" -> AnyList([i \in 1..Len(x.v) |-> Map(x.v[i])])
      [] x.go = "[]string" -> AnyList([i \in 1..Len(x.v) |-> Str(x.v[i])])
      [] OTHER -> x

\* the loop of createCallback for one field holding value x: whether the field
\* is put into the fields of the create body.  known: the field is in fieldMap
createCallback(ft, known, x) ==
    IF x = Nil THEN FALSE
    ELSE IF x.go = "time" /\ x.v = ZeroTime THEN FALSE
    ELSE IF known THEN ConvertFromGoValue(ft, x) # Nil
    ELSE TRUE

\* the lists of at most MaxListLen of the names x and y
Lists == UNION {[1..n -> {"x", "y"}] : n \in 0..MaxListLen}

\* the host values of a field of type ft
HostValues(ft) ==
    CASE ft = FieldTypeText -> {Str(""), Str("x")}
      [] ft = FieldTypeNumber -> {F64(n) : n \in -1..1} \cup {GoInt(1)}
      [] ft = FieldTypeCheckbox -> {Bool(TRUE), Bool(FALSE)}
      [] ft \in {FieldTypeDate, FieldTypeCreatedTime} ->
             {Time(t) : t \in (0..MaxConvTicks) \cup {ZeroTime}}
      [] ft = FieldTypeSingleSelect -> {Str(""), Str("x")}
      [] ft \in {FieldTypeMultiSelect, FieldTypeUser, FieldTypeAttachment} ->
             {StrList(l) : l \in Lists}
      [] OTHER -> {Str("x"), F64(1)}

\* the types the round trip is stated for, and the computed read-only types
RoundTripTypes ==
    {FieldTypeText, FieldTypeCheckbox, FieldTypeNumber, FieldTypeDate, FieldTypeSingleSelect,
     FieldTypeMultiSelect, FieldTypeUser, FieldTypeAttachment}

ComputedTypes == {FieldTypeFormula, FieldTypeLookup, FieldTypeAutoNumber}

FieldTypes == RoundTripTypes \cup ComputedTypes \cup {FieldTypeCreatedTime}

IdleConv ==
    [pc |-> "idle", ftype |-> FieldTypeText, known |-> TRUE, host |-> Str(""), wire |-> Nil,
     back |-> Nil, via |-> "none", inBody |-> FALSE]

ConvIdle == conv = IdleConv

ConvInit ==
    \E ft \in FieldTypes, known \in BOOLEAN :
        \E x \in HostValues(ft) :
            conv = [IdleConv EXCEPT !.ftype = ft, !.known = known, !.host = x]


ConvFrame ==
    UNCHANGED <<now, cbVars, tbVars, tokVars, clVars, recVars, flt, remote, mig, cls>>

\* the host value is converted for writing
ConvWrite ==
    /\ conv.pc = "idle"
    /\ conv' = [conv EXCEPT !.pc = "written",
                            !.wire = ConvertFromGoValue(conv.ftype, conv.host)]
    /\ ConvFrame

\* the wire value is converted back: as it is, or after it went through JSON
ConvRead(via) ==
    /\ conv.pc = "written"
    /\ conv' = [conv EXCEPT !.pc = "read", !.via = via,
                            !.back = ConvertToGoValue(conv.ftype,
                                         IF via = "json" THEN JSONRoundTrip(conv.wire)
                                         ELSE conv.wire)]
    /\ ConvFrame

\* db.Create of a row holding the host value builds the create body
ConvCreate ==
    /\ conv.pc = "idle"
    /\ conv' = [conv EXCEPT !.pc = "sent",
                            !.inBody = createCallback(conv.ftype, conv.known, conv.host)]
    /\ ConvFrame

\* the next value of the field
ConvRestart ==
    /\ conv.pc \in {"read", "sent"}
    /\ conv' = [IdleConv EXCEPT !.ftype = conv.ftype, !.known = conv.known,
                                !.host = conv.host]
    /\ ConvFrame

ConvNext ==
    \/ ConvWrite
    \/ \E via \in {"direct", "json"} : ConvRead(via)
    \/ ConvCreate
    \/ ConvRestart

----------------------------------------------------------------------------
(* Resources: src/unnamed/part_011, NewClient and Client.Close;            *)
(* src/internal/common/resource_manager.go, ResourceManager and            *)
(* ManagedConnection; src/unnamed/part_004, ConnectionPool.Close.          *)

Clients == 1..MaxClients

\* the resources NewClient registers for a client
Kinds == {"pool", "breaker", "limiter"}

\* the order in which NewClient registers its resources
KindOrder == <<"pool", "breaker", "limiter">>

\* NewClient has not been called
NotStarted == [at |-> "idle", i |-> 0]

\* per client: the position of NewClient (reading rm.closed for resource i,
\* inserting resource i, refreshing the token, returned), created when NewClient
\* returned the client and failed when it returned an error, whether it holds an
\* access token, the HTTP requests it sent, the calls of Close and whether one
\* returned an error.  Per resource: present in rm.resources,
\* ManagedConnection.active, and the calls of the function given to
\* NewManagedConnection as closeFunc (connectionPool.Close for the pool)
IdleResources ==
    [rmClosed |-> FALSE,
     pc |-> [c \in Clients |-> NotStarted],
     created |-> [c \in Clients |-> FALSE],
     failed |-> [c \in Clients |-> FALSE],
     sent |-> [c \in Clients |-> 0],
     hasToken |-> [c \in Clients |-> FALSE],
     closes |-> [c \in Clients |-> 0],
     closeErr |-> [c \in Clients |-> FALSE],
     registered |-> [c \in Clients |-> [k \in Kinds |-> FALSE]],
     active |-> [c \in Clients |-> [k \in Kinds |-> FALSE]],
     invoked |-> [c \in Clients |-> [k \in Kinds |-> 0]]]

ClsIdle == cls = IdleResources

ExtIdle == FltIdle /\ MigIdle /\ ConvIdle /\ ClsIdle

ClsFrame ==
    UNCHANGED <<now, cbVars, tbVars, tokVars, clVars, recVars, flt, remote, mig, conv>>

\* ManagedConnection.Close of resource k of client c: the close function runs
\* when the connection is active
ManagedConnectionClose(s, c, k) ==
    IF ~s.active[c][k] THEN s
    ELSE [s EXCEPT !.active[c][k] = FALSE, !.invoked[c][k] = s.invoked[c][k] + 1]

\* ResourceManager.UnregisterResource: an error for an unknown id, else close
\* the resource and delete it
UnregisterResource(s, c, k) ==
    IF ~s.registered[c][k] THEN s
    ELSE [ManagedConnectionClose(s, c, k) EXCEPT !.registered[c][k] = FALSE]

\* c.connectionPool.Close()
ConnectionPoolClose(s, c) == [s EXCEPT !.invoked[c]["pool"] = s.invoked[c]["pool"] + 1]

\* Client.Close: clear the token, unregister the pool and close it, unregister
\* the breaker and the limiter, return nil
ClientCloseOf(s, c) ==
    LET s1 == [s EXCEPT !.hasToken[c] = FALSE]
        s2 == ConnectionPoolClose(UnregisterResource(s1, c, "pool"), c)
        s3 == UnregisterResource(s2, c, "breaker")
        s4 == UnregisterResource(s3, c, "limiter")
    IN  [s4 EXCEPT !.closes[c] = s.closes[c] + 1]

\* ResourceManager.Close: close every registered resource and empty the map
RECURSIVE CloseAll(_, _)
CloseAll(s, ids) ==
    IF ids = {} THEN s
    ELSE LET id == CHOOSE x \in ids : TRUE
         IN  CloseAll([ManagedConnectionClose(s, id[1], id[2]) EXCEPT
                          !.registered[id[1]][id[2]] = FALSE], ids \ {id})

\* NewClient up to the first RegisterGlobalResource: the pool, the breaker and
\* the limiter exist and their managed connections are active
NewClientBegin(c) ==
    /\ cls.pc[c] = NotStarted
    /\ cls' = [cls EXCEPT !.pc[c] = [at |-> "check", i |-> 1],
                          !.active[c] = [k \in Kinds |-> TRUE]]
    /\ ClsFrame

\* after RegisterResource of resource i returned: the next registration, or the
\* initial refreshToken
AfterRegister(i) ==
    IF i < Len(KindOrder) THEN [at |-> "check", i |-> i + 1]
    ELSE [at |-> "refresh", i |-> 0]

\* RegisterResource, the test of rm.closed made before rm.mutex is taken: an
\* error (which NewClient only logs) when the manager is closed
RegisterCheck(c) ==
    /\ cls.pc[c].at = "check"
    /\ cls' = [cls EXCEPT !.pc[c] = IF cls.rmClosed THEN AfterRegister(cls.pc[c].i)
                                    ELSE [at |-> "insert", i |-> cls.pc[c].i]]
    /\ ClsFrame

\* RegisterResource, under rm.mutex: the resource enters rm.resources
RegisterInsert(c) ==
    /\ cls.pc[c].at = "insert"
    /\ cls' = [cls EXCEPT !.registered[c][KindOrder[cls.pc[c].i]] = TRUE,
                          !.pc[c] = AfterRegister(cls.pc[c].i)]
    /\ ClsFrame

\* NewClient, the initial refreshToken: one HTTP request; the client is returned
\* when it succeeds, an error when it fails
NewClientRefresh(c, ok) ==
    /\ cls.pc[c].at = "refresh"
    /\ cls' = [cls EXCEPT !.pc[c] = [at |-> "returned", i |-> 0],
                          !.sent[c] = cls.sent[c] + 1,
                          !.created[c] = ok,
                          !.failed[c] = ~ok,
                          !.hasToken[c] = ok]
    /\ ClsFrame

\* DoRequest on a returned client: getAccessToken refreshes an empty token with
\* one HTTP request, and doSingleRequest sends the API request through the pool
ClsDoRequest(c, ok) ==
    /\ cls.created[c]
    /\ cls.sent[c] + 2 <= MaxSent
    /\ cls' = IF cls.hasToken[c]
              THEN [cls EXCEPT !.sent[c] = cls.sent[c] + 1]
              ELSE IF ok
                   THEN [cls EXCEPT !.sent[c] = cls.sent[c] + 2, !.hasToken[c] = TRUE]
                   ELSE [cls EXCEPT !.sent[c] = cls.sent[c] + 1]
    /\ ClsFrame

\* client.Close()
ClientClose(c) ==
    /\ cls.created[c]
    /\ cls.closes[c] < MaxCloseCalls
    /\ cls' = ClientCloseOf(cls, c)
    /\ ClsFrame

\* GetGlobalResourceManager().Close()
RMClose ==
    /\ ~cls.rmClosed
    /\ cls' = [CloseAll(cls, {id \in Clients \X Kinds : cls.registered[id[1]][id[2]]})
                  EXCEPT !.rmClosed = TRUE]
    /\ ClsFrame

ClsNext ==
    \/ \E c \in Clients : NewClientBegin(c)
    \/ \E c \in Clients : RegisterCheck(c)
    \/ \E c \in Clients : RegisterInsert(c)
    \/ \E c \in Clients, ok \in BOOLEAN : NewClientRefresh(c, ok)
    \/ \E c \in Clients, ok \in BOOLEAN : ClsDoRequest(c, ok)
    \/ \E c \in Clients : ClientClose(c)
    \/ RMClose

----------------------------------------------------------------------------
(* Circuit breaker specification *)

SpecCBInit == now = 0 /\ CBInit /\ TBIdle /\ TokIdle /\ ClientInit /\ RecIdle /\ ExtIdle

SpecCB == SpecCBInit /\ [][CBNext]_vars

\* the last instant at which an operation may still fail: late enough for the
\* breaker to trip and re-trip, early enough for open_timeout to elapse afterwards
CBLiveFailUntil == MaxTime - TimeoutTicks

\* Execute, second half, when operations succeed from CBLiveFailUntil on
CBLiveExecuteEnd(p, err) ==
    /\ err => now < CBLiveFailUntil
    /\ CBExecuteEnd(p, err)

CBLiveNext ==
    \/ \E p \in Procs : CBExecuteBegin(p)
    \/ \E p \in Procs, err \in BOOLEAN : CBLiveExecuteEnd(p, err)
    \/ CBDoReset
    \/ CBTick

\* requests keep arriving, running operations return, and time passes
SpecCBLive ==
    /\ SpecCBInit
    /\ [][CBLiveNext]_vars
    /\ WF_vars(CBTick)
    /\ WF_vars(\E p \in Procs : CBExecuteBegin(p))
    /\ WF_vars(\E p \in Procs : CBLiveExecuteEnd(p, FALSE))

----------------------------------------------------------------------------
(* Circuit breaker properties, checked under SpecCB *)

\* the step just taken was an Execute call arriving at allowRequest
Arrived == cblast'.op \in {"admit", "reject"}

\* the breaker is OPEN and open_timeout has not elapsed since the last recorded failure
OpenNotElapsed == cb.state = "OPEN" /\ Sub(now, cb.lastFailTime) <= cbcfg.Timeout

\* C3: while the breaker is OPEN and open_timeout has not elapsed since the last
\* recorded failure, every Execute call is rejected with the circuit-open error
\* and its operation is not invoked (the caller never enters the operation).
C3_OpenFastFail ==
    [][ (Arrived /\ OpenNotElapsed)
            => (cblast'.op = "reject" /\ cbpc'[cblast'.p] = "idle" /\ cb' = cb) ]_vars

\* C3 witness: a call has just been rejected by an OPEN breaker inside the timeout
C3_Witness == cblast.op = "reject" /\ cb.state = "OPEN" /\ Sub(now, cb.lastFailTime) <= cbcfg.Timeout

\* C4: with max_failures = k, once k consecutive failures have been recorded while
\* CLOSED, the next request to arrive finds the breaker in state OPEN.
C4_TripAfterKFailures ==
    [][ (Arrived /\ tripPending) => cb.state = "OPEN" ]_vars

\* C4 witness: k = MaxFailuresCap failures in a row were recorded and the next
\* request has arrived and was turned away
C4_Witness ==
    /\ cbcfg.MaxFailures = MaxFailuresCap
    /\ streak >= cbcfg.MaxFailures
    /\ cblast.op = "reject"

\* C5: whenever the breaker is CLOSED its failure counter is strictly below
\* MaxFailures, also after Reset and after HALF_OPEN -> CLOSED.
C5_ClosedBelowThreshold ==
    cb.state = "CLOSED" => cb.failures < cbcfg.MaxFailures

\* C5 witness: the breaker tripped, recovered through HALF_OPEN and is CLOSED again
C5_Witness ==
    cb.state = "CLOSED" /\ cblast.op = "succeed" /\ hoSucc >= cbcfg.MaxRequests

C7_HalfOpenFailureReopens ==
    [][ /\ (cb.state = "HALF_OPEN" /\ cblast'.op = "fail")
              => (cb'.state = "OPEN" /\ cb'.lastFailTime = now)
        /\ (cb.state = "OPEN" /\ cb'.state = "HALF_OPEN" /\ hoFailAt # ZeroTime)
              => now - hoFailAt > cbcfg.Timeout ]_vars

\* C7 witness: a probe failed, the timeout ran out again and a new probe was admitted
C7_Witness ==
    cb.state = "HALF_OPEN" /\ hoFailAt # ZeroTime /\ cblast.op = "admit"

\* C8 (as claimed): after the OPEN timeout a single probe is admitted, and no second
\* request is admitted before the outcome of that probe has been recorded; stated
\* for the configuration MaxRequests = 1, where the limit of HALF_OPEN requests is one.
C8_SingleProbe ==
    cbcfg.MaxRequests = 1 => Cardinality({p \in Procs : cbprobe[p]}) <= 1

\* C29 (as claimed): while the breaker is HALF_OPEN, the requests admitted since
\* the OPEN -> HALF_OPEN transition, in flight or completed, never exceed
\* MaxRequests, under any interleaving of concurrent Execute calls.
C29_HalfOpenAdmissionsBounded ==
    cb.state = "HALF_OPEN" => hoAdmitted <= cbcfg.MaxRequests

----------------------------------------------------------------------------
(* Token bucket specification and properties *)

SpecTBInit == now = 0 /\ TBInit /\ CBIdle /\ TokIdle /\ ClientInit /\ RecIdle /\ ExtIdle

SpecTB == SpecTBInit /\ [][TBNext]_vars

\* the bucket under Allow, AllowN and WaitN calls, observed through GetStats
TBStatsNext ==
    \/ TBAllow
    \/ \E n \in 0..MaxN : TBAllowN(n)
    \/ TBGetStats
    \/ \E n \in 1..MaxN : TBAllowNObserved(n)
    \/ \E n \in 0..MaxN : TBWaitBegin(n)
    \/ TBWaitCalc
    \/ TBWaitWake
    \/ TBWaitCancel
    \/ TBTick

SpecTBStats == SpecTBInit /\ [][TBStatsNext]_vars

\* C2: at every observable moment of the bucket, under any interleaving of Allow,
\* AllowN, WaitN, GetTokens, Reset and UpdateConfig, 0 <= tokens <= burst.
C2_BucketBounds ==
    0 <= tb.tokens /\ tb.tokens <= Tok(tb.config.burst)

\* C2 witness: UpdateConfig lowered the burst below the tokens held and the bucket
\* sits exactly at its new capacity
C2_Witness ==
    tblast = "UpdateConfig" /\ tb.config.burst < MaxBurst /\ tb.tokens = Tok(tb.config.burst)

\* C9 (as claimed): WaitN on a bucket holding fewer than n tokens sleeps for the
\* deficit-derived delay and re-checks; it does not return success at that point,
\* where no tokens have been deducted for the call.
C9_WaitSleepsOnDeficit ==
    [][ (tbw.pc = "calc" /\ tbw'.pc # "calc" /\ tb.tokens < Tok(tbw.n))
            => (tbw'.pc = "sleep" /\ tbw'.res # "nil") ]_vars

----------------------------------------------------------------------------
(* Access token specification and properties *)

SpecTokInit == now = 0 /\ TokInit /\ CBIdle /\ TBIdle /\ ClientInit /\ RecIdle /\ ExtIdle

SpecTok == SpecTokInit /\ [][TokNext]_vars

\* C1 (as claimed): under any interleaving of concurrent getAccessToken calls that
\* find the cached token within five minutes of expiry, at most one token refresh
\* (the POST of refreshToken) is in flight at any time.
C1_SingleRefreshInFlight ==
    Cardinality({p \in Procs : tokpc[p] = "refreshing"}) <= 1

----------------------------------------------------------------------------
(* Client specification and properties *)

SpecClientInit == now = 0 /\ ClientInit /\ CBIdle /\ TBIdle /\ TokIdle /\ RecIdle /\ ExtIdle

SpecClient == SpecClientInit /\ [][ClientNext]_vars

\* an HTTP status of the 4xx class other than 429
ClientError(status) == status >= 400 /\ status < 500 /\ status # 429

\* C10 (as claimed): a request whose attempt fails with an HTTP 4xx status other
\* than 429 is not retried: DoRequest never goes on to a further attempt after it.
C10_NoRetryOnClientError ==
    ClientError(req.status) => req.pc # "backoff"

\* C11 (as claimed): an attempt that fails with an error classified as auth (the
\* token request answered with a non-zero code) is never retried by DoRequest.
C11_NoRetryOnAuthError ==
    req.lastErr.type = "auth" => req.pc # "backoff"

\* C12 (as claimed): when the circuit breaker rejects an attempt with its
\* circuit-open error, DoRequest does not retry within the same call.
C12_NoRetryOnCircuitOpen ==
    req.lastErr.origin = "circuit" => req.pc # "backoff"

\* C13 (as claimed): one DoRequest call makes at most RetryConfig.MaxRetries
\* attempts, and never sends more HTTP requests than it makes attempts.
C13_AtMostMaxRetriesAttempts ==
    /\ req.attempts <= RetryConfig.MaxRetries
    /\ req.sent <= req.attempts

\* C14: when the context is cancelled while DoRequest sleeps in a retry back-off
\* (the timer has not fired), the step that ends the sleep returns the
\* cancellation error, not the last error, and no further attempt or HTTP request
\* is made.
C14_CancelDuringBackoff ==
    [][ (req.pc = "backoff" /\ req.ctx = "cancelled" /\ now < req.wake /\ req' # req)
            => /\ req'.pc = "idle"
               /\ req'.result = "cancelled"
               /\ req'.attempts = req.attempts
               /\ req'.sent = req.sent ]_vars

\* a call that failed an attempt with an HTTP error was cancelled in its back-off
C14_Witness ==
    /\ req.pc = "idle"
    /\ req.result = "cancelled"
    /\ req.lastErr.origin = "http"
    /\ req.attempts = 1

\* C15: an attempt rejected by the local rate limiter leaves the circuit breaker
\* untouched: state, failures, requests and lastFailTime are what they were.
C15_LimiterRejectionSparesBreaker ==
    [][ (req.pc = "attempt" /\ req'.attempts = req.attempts + 1
            /\ req'.lastErr.origin = "limiter") => cb' = cb ]_vars

\* the limiter rejected the last attempt of a client whose breaker had recorded
\* a failure before
C15_Witness ==
    /\ req.lastErr.origin = "limiter"
    /\ req.attempts = 1
    /\ cb.lastFailTime # ZeroTime

\* C30 (as claimed): a failure to obtain or refresh the access token is not
\* recorded by the circuit breaker: the attempt that fails on the token leaves
\* the breaker's state and failure counter as they were.
C30_TokenFailureSparesBreaker ==
    [][ (req.pc = "attempt" /\ req'.attempts = req.attempts + 1
            /\ req'.lastErr.origin = "token") => cb' = cb ]_vars

\* C16 (as claimed): whenever the response body carries code # 0, the HTTP status
\* being 2xx included, the attempt returns an error and not a successful response.
C16_EnvelopeCodeIsError ==
    req.code # 0 => req.result # "response"

----------------------------------------------------------------------------
(* Record operations specification and properties *)

SpecRecInit == now = 0 /\ RecInit /\ CBIdle /\ TBIdle /\ TokIdle /\ ClientInit /\ ExtIdle

SpecRec == SpecRecInit /\ [][RecNext]_vars

\* the concatenation of a sequence of pages
RECURSIVE Flatten(_)
Flatten(pages) == IF pages = <<>> THEN <<>> ELSE Head(pages) \o Flatten(Tail(pages))

Ceil(a, b) == (a + b - 1) \div b

\* getRecordsWithLimit returned without error, no limit having been set
PaginatorDone == pag.pc = "done" /\ ~pag.err /\ pag.limit <= 0

\* C17 (as claimed): given pages whose has_more ends false, the paginator
\* returns the concatenation of all pages in emission order and issues one
\* request per page, ceil(total / page_size) requests.
C17_PaginatorComplete ==
    PaginatorDone =>
        /\ pag.allRecords = Flatten(pag.pages)
        /\ pag.allRecords = pag.table
        /\ pag.requests = Len(pag.pages)
        /\ pag.requests = Ceil(Len(pag.table), PageSize)

\* C17 (amended): ... and issues one request per page: ceil(total / page_size)
\* requests for a table that holds records, one request for an empty table.
C17_PaginatorCompleteOneForEmpty ==
    PaginatorDone =>
        /\ pag.allRecords = Flatten(pag.pages)
        /\ pag.allRecords = pag.table
        /\ pag.requests = Len(pag.pages)
        /\ pag.requests = IF pag.table = <<>> THEN 1 ELSE Ceil(Len(pag.table), PageSize)

\* every record of a table of two pages was returned
C17_Witness ==
    /\ PaginatorDone
    /\ pag.requests = 2
    /\ Len(pag.allRecords) = MaxRecords

\* C18 (as claimed): an ORM query follows has_more: its result holds the
\* matching records of every page (without WHERE: every record of the table).
C18_QueryReturnsEveryPage ==
    (qry.pc = "done" /\ ~qry.err) => qry.rows = qry.table

\* C19 (as claimed): a raw DELETE without WHERE reports as affected rows the
\* number of per-record DELETE calls that succeeded, also when a call failed and
\* the error is returned.
C19_AffectedCountsSucceeded ==
    (raw.pc = "done" /\ raw.kind = "DELETE") => raw.affected = raw.succeeded

\* C20 (as claimed): a raw UPDATE or DELETE without WHERE whose list request
\* and per-record calls succeed has issued one PUT / DELETE for every record of
\* the table.
C20_AppliesToAllRecords ==
    (raw.pc = "done" /\ ~raw.err /\ raw.listed = "ok") => raw.issued = Len(raw.table)

----------------------------------------------------------------------------
(* SQL translation specification *)

SpecFltInit ==
    now = 0 /\ FltInit /\ CBIdle /\ TBIdle /\ TokIdle /\ ClientInit /\ RecIdle /\ MigIdle
    /\ ConvIdle /\ ClsIdle

SpecFlt == SpecFltInit /\ [][FltNext]_vars

\* C21: every LIKE predicate on a column, on the raw path and on both ORM
\* paths, is translated to exactly one condition, with operator contains and
\* the pattern without its '%' and '_' characters as the only value.
C21_LikeStripsWildcards ==
    (flt.pc = "done" /\ flt.column # "")
        => flt.conds = <<FilterCondition(flt.column, "contains",
                                         <<ReplaceAll(ReplaceAll(flt.pattern, "%"), "_")>>)>>

\* C22 (as claimed): no per-record DELETE request of a DELETE without WHERE is
\* issued unless the confirmation event was raised for the statement.
C22_DeleteAllConfirmedFirst ==
    (raw.kind = "DELETE" /\ raw.issued > 0) => raw.warned

\* C28 (as claimed): a statement whose text matches a dangerous pattern, on
\* either entry path, returns the security error and makes no request.
C28_DangerousTextRejected ==
    (raw.pc # "idle" /\ ValidateSQL(raw.sql))
        => (raw.secErr /\ raw.listed = "none" /\ raw.issued = 0)

----------------------------------------------------------------------------
(* Migration specification *)

SpecMigInit ==
    now = 0 /\ MigInit /\ CBIdle /\ TBIdle /\ TokIdle /\ ClientInit /\ RecIdle /\ FltIdle
    /\ ConvIdle /\ ClsIdle

SpecMig == SpecMigInit /\ [][MigNext]_vars

\* C23 (as claimed): no create-field or alter-field request is sent for a host
\* field that exists remotely with the mapped type code.
C23_MatchingFieldIsNoop ==
    \A i \in 1..Len(mig.sent) :
        mig.sent[i].op \in {"addField", "updateField"}
            => mig.sent[i].remoteType # mig.sent[i].mapped

\* C24 (as claimed): no create-table request is sent for a table that exists
\* remotely.
C24_CreateOnlyWhenAbsent ==
    \A i \in 1..Len(mig.sent) : mig.sent[i].op = "createTable" => ~mig.sent[i].existed

----------------------------------------------------------------------------
(* Field value specification *)

SpecConvInit ==
    now = 0 /\ ConvInit /\ CBIdle /\ TBIdle /\ TokIdle /\ ClientInit /\ RecIdle /\ FltIdle
    /\ MigIdle /\ ClsIdle

SpecConv == SpecConvInit /\ [][ConvNext]_vars

\* a host value that is an instant, and for a single-select names an option
WellFormed(ft, x) ==
    /\ x.go = "time" => x.v # ZeroTime
    /\ ft = FieldTypeSingleSelect => x.v # ""

\* back is the host value x: the same number, the same instant up to the
\* millisecond, otherwise the same value of the same type
Preserved(x, back) ==
    CASE x.go \in {"int", "float64"} -> back.go = "float64" /\ back.v = x.v
      [] x.go = "time" ->
             back.go = "time" /\ back.v = (x.v \div TicksPerMs) * TicksPerMs
      [] OTHER -> back.go = x.go /\ back.v = x.v

\* C25 (as claimed): for each of the eight field types and every well-formed
\* host value, ConvertToGoValue applied to the result of ConvertFromGoValue
\* preserves the value, datetimes up to millisecond truncation.
C25_RoundTripPreserves ==
    (conv.pc = "read" /\ conv.via = "direct" /\ conv.ftype \in RoundTripTypes
        /\ WellFormed(conv.ftype, conv.host))
        => Preserved(conv.host, conv.back)

\* C26 (as claimed): a write to a field of a computed read-only type produces no
\* wire value, and the field is not put into a create body.
C26_ComputedWriteRejected ==
    conv.ftype \in ComputedTypes
        => /\ conv.pc = "written" => conv.wire = Nil
           /\ conv.pc = "sent" => ~conv.inBody

----------------------------------------------------------------------------
(* Resource specification *)

SpecClsInit ==
    now = 0 /\ ClsIdle /\ CBIdle /\ TBIdle /\ TokIdle /\ ClientInit /\ RecIdle /\ FltIdle
    /\ MigIdle /\ ConvIdle

SpecCls == SpecClsInit /\ [][ClsNext]_vars

\* C27 (as claimed): however often Close is called, it returns no error, the
\* client's pool, breaker and limiter are not in the registry after it, and the
\* close function of each of them has been invoked at most once.
C27_CloseIdempotent ==
    \A c \in Clients :
        cls.closes[c] > 0
            => /\ ~cls.closeErr[c]
               /\ \A k \in Kinds : ~cls.registered[c][k]
               /\ \A k \in Kinds : cls.invoked[c][k] <= 1

----------------------------------------------------------------------------
(* Further properties of the client, SpecClient *)

\* C31 (as claimed): an attempt made with the breaker CLOSED whose response has
\* a 5xx status is recorded as a failure: the failure count grows by one, or the
\* breaker opens.
C31_ServerErrorCountsAsFailure ==
    [][ (req.pc = "attempt" /\ req'.attempts = req.attempts + 1 /\ req'.status >= 500
            /\ cb.state = "CLOSED")
        => (cb'.failures = cb.failures + 1 \/ cb'.state = "OPEN") ]_vars

\* C39 (as claimed): every call of ExecuteRequest, whatever its outcome, adds
\* exactly one to the pool's TotalRequests.
C39_TotalRequestsCountsCalls ==
    [][ (req.pc = "attempt" /\ req'.sent = req.sent + 1)
        => pool'.total = pool.total + 1 ]_vars

----------------------------------------------------------------------------
(* Further properties of the circuit breaker *)

\* C32 (as claimed), SpecCB: when a caller that was not admitted as a probe of
\* the current HALF_OPEN period returns while the breaker is HALF_OPEN, its
\* result changes neither the state nor the probe count.
C32_OnlyProbesDecide ==
    [][ \A p \in Procs :
            (cbpc[p] = "running" /\ cbpc'[p] = "idle" /\ ~cbprobe[p]
                /\ cb.state = "HALF_OPEN")
            => (cb'.state = "HALF_OPEN" /\ cb'.requests = cb.requests) ]_vars

\* C33, SpecCBLive: when operations succeed from some point on and requests
\* keep arriving, a breaker that is OPEN or HALF_OPEN eventually is CLOSED.
C33_EventuallyCloses ==
    (cb.state \in {"OPEN", "HALF_OPEN"}) ~> (cb.state = "CLOSED")

\* a probe succeeded after failures had stopped and the breaker closed again
C33_Witness ==
    /\ cb.state = "CLOSED"
    /\ cblast.op = "succeed"
    /\ hoSucc >= cbcfg.MaxRequests
    /\ cb.lastFailTime # ZeroTime
    /\ now >= CBLiveFailUntil

----------------------------------------------------------------------------
(* Further properties of the client's resources, SpecCls *)

\* C34 (as claimed): once Close has returned on a client, no step sends an HTTP
\* request for that client, neither an API call nor a token refresh.
C34_NoRequestAfterClose ==
    [][ \A c \in Clients : cls.closes[c] > 0 => cls'.sent[c] = cls.sent[c] ]_vars

\* C35 (as claimed): once ResourceManager.Close has returned, the registry holds
\* no resource, whatever the interleaving with RegisterResource.
C35_RegistryEmptyAfterClose ==
    cls.rmClosed => \A c \in Clients : \A k \in Kinds : ~cls.registered[c][k]

\* C36 (as claimed): when NewClient returned an error, none of the resources it
\* created is in the registry.
C36_FailedNewClientLeavesNothing ==
    \A c \in Clients : cls.failed[c] => \A k \in Kinds : ~cls.registered[c][k]

----------------------------------------------------------------------------
(* Further properties of the record operations, SpecRec *)

\* C37 (as claimed): the loop of getRecordsWithLimit ends after a bounded number
\* of requests whatever the successful responses are: it is never still running
\* after MaxPagRequests requests, more than the pages of any table.
C37_PaginatorTerminates ==
    pag.pc = "page" => pag.requests < MaxPagRequests

----------------------------------------------------------------------------
(* Further properties of the token bucket, SpecTBStats *)

\* C38 (as claimed): every snapshot GetStats returns, at whatever moment of
\* concurrent Allow, AllowN and WaitN calls it is taken, has
\* TotalRequests = AllowedRequests + RejectedRequests.
C38_SnapshotConsistent ==
    tbsnap.total = tbsnap.allowed + tbsnap.rejected

\* C40 (as claimed): a SELECT with WHERE and LIMIT n displays the first
\* min(n, m) of the m records of the table that satisfy the condition.
C40_LimitAfterFilter ==
    (pag.pc = "done" /\ ~pag.err /\ srv.wire = "envelope"
        /\ pag.limit > 0 /\ Len(pag.where) > 0)
    => LET matching == filterRecords(pag.table, pag.where)
       IN  pag.rows = SubSeq(matching, 1, Min(pag.limit, Len(matching)))

====
